---- MODULE Spec2Model ----
(***************************************************************************)
(* Verification model of interview-transcriber.                            *)
(*                                                                         *)
(*  - splitTranscription / proofreadTranscription  (ai.ts, version with    *)
(*    the text segmenter)                       -> specification SpecText  *)
(*  - splitAudio (ffmpeg.ts)                    -> specification SpecAudio *)
(*  - transcribe (transcribe.ts)                -> specification SpecRun   *)
(*    in its three revisions: "speakers", "proofread", "results"           *)
(*  - execute of the transcribe command         -> specification SpecCommand *)
(*  - main (startup)                            -> specification SpecMain  *)
(*  - commandsListener                          -> specification SpecListener *)
(*                                                                         *)
(* A text is a sequence of characters over Chars.  Fractions of the source *)
(* (0.4, 0.05, totalUnits / expectedSegments) are compared exactly, by     *)
(* cross-multiplication of integers.                                       *)
(***************************************************************************)
EXTENDS Integers, Sequences, FiniteSets, TLC

\* ------------------------------------------------------------------ bounds
\* longest input transcription, in characters
MaxLen == 5
\* maxOutputTokens of the "gemini" model; the source's 2048 scaled down,
\* the "gpt4"/"gpt4turbo" models keep the source's ratio (4096 = 2 * 2048)
TokenUnit == 4
\* largest number of tokens the estimator gives to one letter "b"
MaxTokB == 4

\* largest duration (seconds), size and size limit (bytes) of a splitAudio
\* call made on its own
MaxDuration == 12
MaxSize == 8
MaxLimit == 3

\* ------------------------------------------------------------- characters
NL == "\n"
SP == " "
Chars == {"a", "b", SP, NL}

Min(x, y) == IF x <= y THEN x ELSE y

\* ceil(n / d) for n >= 0, d > 0 (Math.ceil of a quotient)
CeilDiv(n, d) == (n + d - 1) \div d

\* all texts of at most n characters
RECURSIVE TextsUpTo(_)
TextsUpTo(n) ==
    IF n = 0 THEN {<<>>}
    ELSE LET shorter == TextsUpTo(n - 1)
         IN  shorter \cup {Append(t, c) : t \in {s \in shorter : Len(s) = n - 1}, c \in Chars}

\* Array.prototype.join on texts
RECURSIVE join(_, _)
join(texts, sep) ==
    IF Len(texts) = 0 THEN <<>>
    ELSE IF Len(texts) = 1 THEN texts[1]
    ELSE texts[1] \o sep \o join(Tail(texts), sep)

\* String.prototype.split(/\n+/): the pieces between maximal runs of line
\* breaks; a leading or trailing run yields an empty first or last piece and
\* the empty text yields one empty piece
RECURSIVE splitOnLineBreaks(_, _, _)
splitOnLineBreaks(text, cur, prevNL) ==
    IF Len(text) = 0 THEN <<cur>>
    ELSE IF Head(text) = NL
         THEN IF prevNL THEN splitOnLineBreaks(Tail(text), cur, TRUE)
              ELSE <<cur>> \o splitOnLineBreaks(Tail(text), <<>>, TRUE)
         ELSE splitOnLineBreaks(Tail(text), Append(cur, Head(text)), FALSE)

\* line.trim() is truthy: the line has a character that is not white space
trimTruthy(line) == \E k \in 1..Len(line) : line[k] \notin {SP, NL}

\* transcription.split(/\n+/).filter((line) => line.trim())
nonBlankLines(text) == SelectSeq(splitOnLineBreaks(text, <<>>, FALSE), trimTruthy)

\* [...segmenter.segment(text)].length
\*   "ja": grapheme granularity, one segment per character
\*   "en": word granularity (UAX #29): a run of letters is one segment, a run
\*         of spaces is one segment, every line break is a segment of its own
RECURSIVE wordSegments(_, _)
wordSegments(text, prev) ==
    IF Len(text) = 0 THEN 0
    ELSE LET c == Head(text)
             class == IF c = NL THEN "nl" ELSE IF c = SP THEN "sp" ELSE "letter"
             starts == class = "nl" \/ class # prev
         IN  (IF starts THEN 1 ELSE 0) + wordSegments(Tail(text), class)

segmentCount(text, language) ==
    IF language = "en" THEN wordSegments(text, "none") ELSE Len(text)

\* ------------------------------------------------------------------ models
\* maxOutputTokens of the models table, scaled by TokenUnit / 2048
models ==
    [gpt4turbo |-> [api |-> "openai", maxOutputTokens |-> 2 * TokenUnit],
     gpt4      |-> [api |-> "openai", maxOutputTokens |-> 2 * TokenUnit],
     gemini    |-> [api |-> "gemini", maxOutputTokens |-> TokenUnit]]

\* const maxInputTokensRatio = 0.4, in hundredths
maxInputTokensRatio == 40
\* the 0.05 of "maxInputTokensRatio + 0.05", in hundredths
tolerance == 5

\* The token estimators (tiktoken, Gemini countTokens) are functions of the
\* text.  The model draws one from a family: every "a" is 1 token, every "b"
\* is tokB tokens, a space is tokSP and a line break is tokNL tokens.
Estimators == [tokB : 1..MaxTokB, tokSP : {0}, tokNL : {0, 1}]

RECURSIVE tokensOf(_, _)
tokensOf(text, est) ==
    IF Len(text) = 0 THEN 0
    ELSE (CASE Head(text) = "a" -> 1
            [] Head(text) = "b" -> est.tokB
            [] Head(text) = SP  -> est.tokSP
            [] OTHER            -> est.tokNL)
         + tokensOf(Tail(text), est)

VARIABLES
    \* ---- splitTranscription / proofreadTranscription
    transcription,   \* the input text
    language,        \* "en" or "ja"
    model,           \* key of models
    estimator,       \* the token estimator in use
    tpc,             \* position of the proofreadTranscription call
    segments,        \* the chunks, each a sequence of [text, length] lines
    segIndex,        \* i of the refinement loop
    countCalls,      \* number of countTokens calls made so far
    lastMove,        \* the last refinement step taken, for inspection
    moves,           \* number of lines moved by the refinement so far
    warnings,        \* number of "Too long line" warnings logged
    splitResult,     \* the array returned by splitTranscription
    requests,        \* proofreading requests issued, in issue order
    responses,       \* per request: "pending", "ok" or "empty"
    failure,         \* what made proofreadTranscription throw, or "none"
    proofreadResult  \* the response field of the returned object

textVars == <<transcription, language, model, estimator, tpc, segments,
              segIndex, countCalls, lastMove, moves, warnings, splitResult,
              requests, responses, failure, proofreadResult>>

VARIABLES
    \* ---- splitAudio
    apc,             \* position of the splitAudio call
    sourcePath,      \* its sourcePath argument
    maxFileSize,     \* its maxFileSize argument
    probe,           \* format.duration and format.size given by ffprobe
    segmentTime,     \* the -segment_time passed to ffmpeg, -1 before
    transcodeCalls,  \* number of segmenting transcodes started
    manifest,        \* rows of the segment list written by ffmpeg
    audioSegments,   \* the array splitAudio resolved with
    audioError       \* the error splitAudio rejected with, or "none"

audioVars == <<apc, sourcePath, maxFileSize, probe, segmentTime,
               transcodeCalls, manifest, audioSegments, audioError>>

VARIABLES
    \* ---- transcribe
    rpc,             \* position of the transcribe call
    revision,        \* "speakers" (transcribe.ts), "proofread" (the
                     \* revision of transcribe that proofreads) or
                     \* "results" (the revision that collects its pending
                     \* results in one list)
    results,         \* the list "results" of that revision: the names of
                     \* the promises pushed, in order
    returned,        \* the object the try block returned: per property the
                     \* promise whose value it is bound to
    sourceFile,      \* the data of the metadata response, per field
    fileType,        \* "video" or "audio" once the metadata is known
    hasParent,       \* sourceFile.parents[0] is defined
    tempDir,         \* "none", "exists" or "removed"
    parentFolder,    \* promise: "none", "pending", "resolved", "rejected"
    audioFile,       \* promise of the audio upload
    transcriptionFile, \* promise of the transcription upload
    proofreadFile,   \* promise of the proofread upload ("proofread" only)
    segStatus,       \* per audio segment: "pending", "done" or "failed"
    completed,       \* segment indexes in the order their calls resolved
    transcribeCalls, \* per audio segment: calls of transcribeAudioFile
    transcribedText, \* transcriptions.join("\n"), as the list of parts
    stageLog,        \* the stages started, in order
    pending,         \* completion of the try block awaiting the finally
    runError,        \* the stage whose failure the run rejects with
    outcome          \* "none", [resolved ...] or "rejected"

runVars == <<rpc, revision, results, returned, sourceFile, fileType, hasParent, tempDir, parentFolder, audioFile,
             transcriptionFile, proofreadFile, segStatus, completed, transcribeCalls, transcribedText,
             stageLog, pending, runError, outcome>>

VARIABLES
    \* ---- the transcribe command (execute)
    cpc,             \* position of the execute call, "none" without one
    sourceUrl,       \* the source_url option, by its parts
    discordCalls,    \* calls made on the interaction, with their results
    caught           \* message of the error the catch block caught

cmdVars == <<cpc, sourceUrl, discordCalls, caught>>

VARIABLES
    \* ---- main (startup)
    mpc,             \* position of the startup, "none" without one
    env,             \* per required variable: "absent", "empty" or "set"
    contacted,       \* the external collaborators called so far, in order
    exitStatus       \* status the process exited with, -1 while it runs

mainVars == <<mpc, env, contacted, exitStatus>>

VARIABLES
    \* ---- commandsListener
    lpc,             \* position of the listener call, "none" without one
    interaction,     \* the interaction received: kind, guildId, commandName
    commands,        \* the table of executable commands
    cursor,          \* index of the command the for loop is at
    executed,        \* indexes of the commands whose execute was called
    listenerLog      \* what the listener logged, in order

listenerVars == <<lpc, interaction, commands, cursor, executed, listenerLog>>

vars == <<textVars, audioVars, runVars, cmdVars, mainVars, listenerVars>>

NoMove == [from |-> 0, before |-> <<>>]

\* no source_url: no command is being executed
NoUrl == [scheme |-> "none", host |-> "none", folder |-> "none",
          marker |-> "none", idLength |-> 0, tail |-> "none"]

\* no interaction: no listener call is in progress
NoInteraction == [kind |-> "none", guildId |-> "none", commandName |-> "none"]

\* the try block of transcribe has not returned
NoReturn == [parent |-> "none", audio |-> "none", transcription |-> "none",
             proofreadTranscription |-> "none"]

\* the variables main requires
requiredEnvs ==
    {"DISCORD_BOT_TOKEN", "DISCORD_GUILD_ID", "GOOGLE_SERVICE_ACCOUNT_EMAIL",
     "GOOGLE_SERVICE_ACCOUNT_KEY", "OPENAI_API_KEY", "GEMINI_API_KEY"}

\* ------------------------------------------------- splitTranscription
\* expectedSegments = Math.ceil(tokens / (maxOutputTokens * maxInputTokensRatio))
expectedSegments(tokens, m) ==
    CeilDiv(100 * tokens, models[m].maxOutputTokens * maxInputTokensRatio)

\* sum of the lengths of the lines of a chunk
RECURSIVE chunkLength(_)
chunkLength(chunk) ==
    IF Len(chunk) = 0 THEN 0 ELSE chunk[1].length + chunkLength(Tail(chunk))

\* lastSegmentLength + length < segmentLength, where
\* segmentLength = totalUnits / expected is a JavaScript number:
\*   expected = 0 and totalUnits > 0 : Infinity, the comparison is true
\*   expected = 0 and totalUnits = 0 : NaN, the comparison is false
fitsInSegment(sum, totalUnits, expected) ==
    IF expected = 0 THEN totalUnits > 0
    ELSE sum * expected < totalUnits

\* the reduce over the non-blank lines, started with [[]]
RECURSIVE greedy(_, _, _, _, _)
greedy(lines, segs, totalUnits, expected, lang) ==
    IF Len(lines) = 0 THEN segs
    ELSE LET line == Head(lines)
             lastSegment == segs[Len(segs)]
             length == segmentCount(line, lang)
             segment == [text |-> line, length |-> length]
             next == IF fitsInSegment(chunkLength(lastSegment) + length, totalUnits, expected)
                     THEN [segs EXCEPT ![Len(segs)] = Append(lastSegment, segment)]
                     ELSE Append(segs, <<segment>>)
         IN  greedy(Tail(lines), next, totalUnits, expected, lang)

\* segment.map(({ text }) => text).join("\n")
chunkText(chunk) == join([k \in 1..Len(chunk) |-> chunk[k].text], <<NL>>)

\* (variant: the tolerance written as 0.5)
overBudget_looseTolerance(tokens, m) ==
    100 * tokens > models[m].maxOutputTokens * (maxInputTokensRatio + 10 * tolerance)

\* count > maxOutputTokens * (maxInputTokensRatio + 0.05)
overBudget(tokens, m) ==
    100 * tokens > models[m].maxOutputTokens * (maxInputTokensRatio + tolerance)

\* (variant: the lines of a chunk joined with a space)
chunkTexts_joinedBySpace(segs) ==
    [k \in 1..Len(segs) |-> join([j \in 1..Len(segs[k]) |-> segs[k][j].text], <<SP>>)]

\* segments.map((segment) => segment.map(({ text }) => text).join("\n"))
chunkTexts(segs) == [k \in 1..Len(segs) |-> chunkText(segs[k])]

\* the synchronous code that follows a countTokens result for segments[i]
\* (1-based here) that ends the while loop: i++ and either the next await of
\* countTokens or the return of splitTranscription
LeaveSegment ==
    /\ segIndex' = segIndex + 1
    /\ IF segIndex + 1 <= Len(segments')
       THEN /\ tpc' = "count_segment"
            /\ splitResult' = splitResult
       ELSE /\ tpc' = "split_returned"
            /\ splitResult' = chunkTexts(segments')

\* await countTokens(transcription, model) resolves; the greedy pass runs up
\* to the first await of the refinement loop
CountTranscription ==
    /\ tpc = "count_transcription"
    /\ countCalls' = countCalls + 1
    /\ LET tokens == tokensOf(transcription, estimator)
           expected == expectedSegments(tokens, model)
           totalUnits == segmentCount(transcription, language)
       IN  segments' = greedy(nonBlankLines(transcription), << <<>> >>,
                              totalUnits, expected, language)
    /\ segIndex' = 1
    /\ tpc' = "count_segment"
    /\ UNCHANGED <<transcription, language, model, estimator, lastMove,
                   moves, warnings, splitResult, requests, responses, failure,
                   proofreadResult>>
    /\ UNCHANGED <<audioVars, runVars, cmdVars, mainVars, listenerVars>>

\* (variant: nextSegment.push(lastLine) in place of unshift)
moveLastLine_push(segs, i) ==
    LET segment == segs[i]
        lastLine == segment[Len(segment)]
        popped == SubSeq(segment, 1, Len(segment) - 1)
    IN  IF i + 1 <= Len(segs)
        THEN [segs EXCEPT ![i] = popped, ![i + 1] = Append(@, lastLine)]
        ELSE Append([segs EXCEPT ![i] = popped], <<lastLine>>)

\* segment.pop() followed by nextSegment.unshift(lastLine), or by
\* segments.push([lastLine]) when chunk i is the last one (i is 1-based)
moveLastLine(segs, i) ==
    LET segment == segs[i]
        lastLine == segment[Len(segment)]
        popped == SubSeq(segment, 1, Len(segment) - 1)
    IN  IF i + 1 <= Len(segs)
        THEN [segs EXCEPT ![i] = popped, ![i + 1] = <<lastLine>> \o @]
        ELSE Append([segs EXCEPT ![i] = popped], <<lastLine>>)

\* (variant: without the break for a chunk of a single line)
CountSegment_noSingleLineBreak ==
    /\ tpc = "count_segment"
    /\ countCalls' = countCalls + 1
    /\ LET segment == segments[segIndex]
           tokens == tokensOf(chunkText(segment), estimator)
       IN  IF ~overBudget(tokens, model) \/ Len(segment) = 0
           THEN /\ segments' = segments
                /\ lastMove' = NoMove
                /\ moves' = moves
                /\ LeaveSegment
           ELSE /\ segments' = moveLastLine(segments, segIndex)
                /\ lastMove' = [from |-> segIndex, before |-> segments]
                /\ moves' = moves + 1
                /\ UNCHANGED <<segIndex, tpc, splitResult>>
    /\ UNCHANGED <<transcription, language, model, estimator, requests,
                   responses, failure, proofreadResult, warnings>>
    /\ UNCHANGED <<audioVars, runVars, cmdVars, mainVars, listenerVars>>

\* (variant: a single line over the bound makes splitTranscription throw)
CountSegment_failsOnLongLine ==
    /\ tpc = "count_segment"
    /\ countCalls' = countCalls + 1
    /\ LET segment == segments[segIndex]
           tokens == tokensOf(chunkText(segment), estimator)
       IN  IF overBudget(tokens, model) /\ Len(segment) = 1
           THEN /\ tpc' = "failed"
                /\ failure' = "Too long line"
                /\ UNCHANGED <<segments, lastMove, moves, warnings, segIndex,
                               splitResult>>
           ELSE IF ~overBudget(tokens, model) \/ Len(segment) = 0
           THEN /\ segments' = segments
                /\ lastMove' = NoMove
                /\ moves' = moves
                /\ LeaveSegment
                /\ UNCHANGED <<warnings, failure>>
           ELSE /\ segments' = moveLastLine(segments, segIndex)
                /\ lastMove' = [from |-> segIndex, before |-> segments]
                /\ moves' = moves + 1
                /\ UNCHANGED <<segIndex, tpc, splitResult, warnings, failure>>
    /\ UNCHANGED <<transcription, language, model, estimator, requests,
                   responses, proofreadResult>>
    /\ UNCHANGED <<audioVars, runVars, cmdVars, mainVars, listenerVars>>

\* await countTokens(chunk i) resolves: one evaluation of the while condition
\* and the loop body that follows it
CountSegment ==
    /\ tpc = "count_segment"
    /\ countCalls' = countCalls + 1
    /\ LET segment == segments[segIndex]
           tokens == tokensOf(chunkText(segment), estimator)
       IN  IF \/ ~overBudget(tokens, model)
              \* segment.length === 1: consola.warn("Too long line"); break
              \/ Len(segment) = 1
              \* segment.pop() gave undefined: break
              \/ Len(segment) = 0
           THEN /\ segments' = segments
                /\ lastMove' = NoMove
                /\ moves' = moves
                /\ warnings' = warnings + (IF overBudget(tokens, model) /\ Len(segment) = 1
                                           THEN 1 ELSE 0)
                /\ LeaveSegment
           ELSE /\ segments' = moveLastLine(segments, segIndex)
                /\ lastMove' = [from |-> segIndex, before |-> segments]
                /\ moves' = moves + 1
                /\ UNCHANGED <<segIndex, tpc, splitResult, warnings>>
    /\ UNCHANGED <<transcription, language, model, estimator, requests,
                   responses, failure, proofreadResult>>
    /\ UNCHANGED <<audioVars, runVars, cmdVars, mainVars, listenerVars>>

\* (variant: the failure is caught and the chunks built so far are returned)
CountTokensFails_returnsPartial ==
    /\ tpc \in {"count_transcription", "count_segment"}
    /\ countCalls' = countCalls + 1
    /\ tpc' = "split_returned"
    /\ failure' = "countTokens"
    /\ splitResult' = chunkTexts(segments)
    /\ UNCHANGED <<transcription, language, model, estimator, segments,
                   segIndex, lastMove, moves, warnings, requests,
                   responses, proofreadResult>>
    /\ UNCHANGED <<audioVars, runVars, cmdVars, mainVars, listenerVars>>

\* countTokens rejects (the Gemini call fails, or tiktoken throws): the await
\* throws inside splitTranscription, which has no try/catch, and so does the
\* await of splitTranscription in proofreadTranscription
CountTokensFails ==
    /\ tpc \in {"count_transcription", "count_segment"}
    /\ countCalls' = countCalls + 1
    /\ tpc' = "failed"
    /\ failure' = "countTokens"
    /\ UNCHANGED <<transcription, language, model, estimator, segments,
                   segIndex, lastMove, moves, warnings, splitResult, requests,
                   responses, proofreadResult>>
    /\ UNCHANGED <<audioVars, runVars, cmdVars, mainVars, listenerVars>>

\* proofreadTranscription after "await splitTranscription(...)": one request
\* per chunk, all started by the segments.map inside Promise.all
IssueRequests ==
    /\ tpc = "split_returned"
    /\ requests' = splitResult
    /\ responses' = [k \in 1..Len(splitResult) |-> "pending"]
    /\ tpc' = "proofreading"
    /\ UNCHANGED <<transcription, language, model, estimator, segments,
                   segIndex, countCalls, lastMove, moves, warnings,
                   splitResult, failure, proofreadResult>>
    /\ UNCHANGED <<audioVars, runVars, cmdVars, mainVars, listenerVars>>

\* the text a model answers to request k when it answers at all
replyText(k) == [j \in 1..k |-> "a"]

\* results.join("\n\n") over the responses, by position
RECURSIVE joinReplies(_, _)
joinReplies(resp, k) ==
    IF k > Len(resp) THEN <<>>
    ELSE (IF resp[k] = "ok" THEN replyText(k) ELSE <<>>)
         \o (IF k < Len(resp) THEN <<NL, NL>> ELSE <<>>)
         \o joinReplies(resp, k + 1)

\* (variant: empty responses are left out of the joined text)
finishProofread_skipsEmpty(resp) ==
    [pc |-> "proofread_returned", failure |-> "none",
     response |-> joinReplies(resp, 1)]

\* the code after "await Promise.all(...)" has all responses
finishProofread(resp) ==
    IF \E k \in 1..Len(resp) : resp[k] = "empty"
    THEN [pc |-> "failed", failure |-> "empty response", response |-> <<>>]
    ELSE [pc |-> "proofread_returned", failure |-> "none",
          response |-> joinReplies(resp, 1)]

\* request k completes, with a text or with an empty content; when it is the
\* last one Promise.all resolves and proofreadTranscription runs to its end
RequestCompletes(k, content) ==
    /\ tpc = "proofreading"
    /\ k \in 1..Len(responses)
    /\ responses[k] = "pending"
    /\ responses' = [responses EXCEPT ![k] = content]
    /\ IF \A j \in 1..Len(responses) : responses'[j] # "pending"
       THEN LET end == finishProofread(responses')
            IN  /\ tpc' = end.pc
                /\ failure' = end.failure
                /\ proofreadResult' = end.response
       ELSE UNCHANGED <<tpc, failure, proofreadResult>>
    /\ UNCHANGED <<transcription, language, model, estimator, segments,
                   segIndex, countCalls, lastMove, moves, warnings,
                   splitResult, requests>>
    /\ UNCHANGED <<audioVars, runVars, cmdVars, mainVars, listenerVars>>

\* Promise.all over zero requests resolves at once (not reachable: the
\* segment list always has at least one chunk) -- kept out of the model.

\* request k rejects: Promise.all rejects and proofreadTranscription throws
RequestFails(k) ==
    /\ tpc = "proofreading"
    /\ k \in 1..Len(responses)
    /\ responses[k] = "pending"
    /\ tpc' = "failed"
    /\ failure' = "request"
    /\ UNCHANGED <<transcription, language, model, estimator, segments,
                   segIndex, countCalls, lastMove, moves, warnings,
                   splitResult, requests, responses, proofreadResult>>
    /\ UNCHANGED <<audioVars, runVars, cmdVars, mainVars, listenerVars>>



TextNext ==
    \/ CountTranscription
    \/ CountSegment
    \/ CountTokensFails
    \/ IssueRequests
    \/ \E k \in 1..(MaxLen + 1), content \in {"ok", "empty"} : RequestCompletes(k, content)
    \/ \E k \in 1..(MaxLen + 1) : RequestFails(k)

\* ------------------------------------------------------------- splitAudio
\* Times are whole seconds.  A field of the segment list is a string of
\* decimal digits (ffmpeg prints "%f"; the fraction, always zero here, is
\* left out); a missing or empty field is the empty string.
DigitChars == <<"0", "1", "2", "3", "4", "5", "6", "7", "8", "9">>

\* how ffmpeg prints a time into the segment list
RECURSIVE formatTime(_)
formatTime(n) ==
    IF n < 10 THEN <<DigitChars[n + 1]>>
    ELSE formatTime(n \div 10) \o <<DigitChars[(n % 10) + 1]>>

digitValue(c) == CHOOSE d \in 0..9 : DigitChars[d + 1] = c

\* Number(field) for a string of digits
RECURSIVE Number(_)
Number(field) ==
    IF Len(field) = 0 THEN 0
    ELSE 10 * Number(SubSeq(field, 1, Len(field) - 1)) + digitValue(field[Len(field)])

\* the file name that the pattern `${name}%03d${ext}` gives to segment k
segmentFileName(src, k) == <<src.file[1], k>>

\* The segment list that "-f segment -segment_time t -segment_list list"
\* writes for a source of the given duration: consecutive pieces of t
\* seconds, the last one shorter, one row <<file, start, end>> per piece.
segmentList(src, duration, t) ==
    [k \in 1..CeilDiv(duration, t) |->
        <<segmentFileName(src, k - 1),
          formatTime((k - 1) * t),
          formatTime(Min(k * t, duration))>>]

\* the segment lists splitAudio may find: the one above, or one of its rows
\* with a field missing
PossibleManifests(src, duration, t) ==
    IF t < 1 THEN {}
    ELSE LET list == segmentList(src, duration, t)
         IN  {list} \cup {[list EXCEPT ![r][f] = <<>>] : r \in 1..Len(list), f \in 1..3}

\* (variant: size < maxFileSize)
fitsInOneFile_strict(size, limit) == size < limit

\* size <= maxFileSize
fitsInOneFile(size, limit) == size <= limit

\* quotient and remainder of a * b by c, for a, b >= 0 and c > 0, computed
\* by halving a so that no intermediate value leaves the 32-bit integers
\* (the code computes in doubles, exact for these magnitudes)
RECURSIVE mulDivMod(_, _, _)
mulDivMod(a, b, c) ==
    IF a = 0 THEN [q |-> 0, r |-> 0]
    ELSE LET h == mulDivMod(a \div 2, b, c)
             r2 == 2 * h.r + (a % 2) * (b % c)
         IN  [q |-> 2 * h.q + (a % 2) * (b \div c) + r2 \div c, r |-> r2 % c]

\* Math.floor((duration * maxFileSize) / size)
segmentTimeFor(duration, size, limit) == mulDivMod(duration, limit, size).q

\* !(row[0] && row[1] && row[2])
rowIncomplete(row) == Len(row[1]) = 0 \/ Len(row[2]) = 0 \/ Len(row[3]) = 0

\* (variant: start and end taken from the wrong columns)
parseRow_swapped(row, dir) ==
    [path |-> [dir |-> dir, file |-> row[1]],
     startTime |-> Number(row[3]),
     endTime |-> Number(row[2])]

\* the object built from one row of the list
parseRow(row, dir) ==
    [path |-> [dir |-> dir, file |-> row[1]],
     startTime |-> Number(row[2]),
     endTime |-> Number(row[3])]

\* (variant: incomplete rows are skipped)
parseManifest_skipsBadRows(rows, dir) ==
    LET good == SelectSeq(rows, LAMBDA row : ~rowIncomplete(row))
    IN  [ok |-> TRUE, segments |-> [k \in 1..Len(good) |-> parseRow(good[k], dir)]]

\* (parse(csv) as string[][]).map(...): throws at the first incomplete row
parseManifest(rows, dir) ==
    IF \E k \in 1..Len(rows) : rowIncomplete(rows[k])
    THEN [ok |-> FALSE, segments |-> <<>>]
    ELSE [ok |-> TRUE, segments |-> [k \in 1..Len(rows) |-> parseRow(rows[k], dir)]]

\* maxAudioFileDuration = 20 * 60
maxAudioFileDuration == 1200

\* whisperMaxFileSize = 25 * 1000 * 1000 (bytes; the "proofread" revision
\* passes whisperMaxFileSize * 0.95 to splitAudio)
whisperMaxFileSize == 25000000

\* what ffprobe may report (0 stands for a missing or zero value): small
\* values for a call of splitAudio on its own, a 40-minute source of several
\* sizes for a call made by transcribe
RunDurations == {0, 2400}
RunSizes == {0, 1000, 2400, 4800, 38400000}
ProbeDurations == IF rpc = "idle" THEN 0..MaxDuration ELSE RunDurations
ProbeSizes == IF rpc = "idle" THEN 0..MaxSize ELSE RunSizes

\* ffprobe answers; the callback given to .then runs up to the start of the
\* segmenting transcode
ProbeResolves(duration, size) ==
    /\ apc = "probing"
    /\ duration \in ProbeDurations
    /\ size \in ProbeSizes
    /\ probe' = [duration |-> duration, size |-> size]
    /\ IF duration = 0 \/ size = 0
       THEN /\ apc' = "failed"
            /\ audioError' = "Failed to get file metadata from ffprobe."
            /\ UNCHANGED <<segmentTime, transcodeCalls, audioSegments>>
       ELSE IF fitsInOneFile(size, maxFileSize)
       THEN /\ apc' = "returned"
            /\ audioSegments' = <<[path |-> sourcePath, startTime |-> 0,
                                   endTime |-> duration]>>
            /\ UNCHANGED <<segmentTime, transcodeCalls, audioError>>
       ELSE /\ apc' = "transcoding"
            /\ segmentTime' = segmentTimeFor(duration, size, maxFileSize)
            /\ transcodeCalls' = transcodeCalls + 1
            /\ UNCHANGED <<audioSegments, audioError>>
    /\ UNCHANGED <<sourcePath, maxFileSize, manifest>>
    /\ UNCHANGED <<textVars, runVars, cmdVars, mainVars, listenerVars>>

\* ffprobe fails
ProbeFails ==
    /\ apc = "probing"
    /\ apc' = "failed"
    /\ audioError' = "ffprobe"
    /\ UNCHANGED <<sourcePath, maxFileSize, probe, segmentTime,
                   transcodeCalls, manifest, audioSegments>>
    /\ UNCHANGED <<textVars, runVars, cmdVars, mainVars, listenerVars>>

\* ffmpeg emits "end": the segment list is on disk and its text is awaited.
\* ffmpeg accepts only a positive segment_time.
TranscodeEnds(rows) ==
    /\ apc = "transcoding"
    /\ segmentTime >= 1
    /\ rows \in PossibleManifests(sourcePath, probe.duration, segmentTime)
    /\ manifest' = rows
    /\ apc' = "reading"
    /\ UNCHANGED <<sourcePath, maxFileSize, probe, segmentTime,
                   transcodeCalls, audioSegments, audioError>>
    /\ UNCHANGED <<textVars, runVars, cmdVars, mainVars, listenerVars>>

\* ffmpeg emits "error" (always so for a segment_time of 0)
TranscodeFails ==
    /\ apc = "transcoding"
    /\ apc' = "failed"
    /\ audioError' = "ffmpeg"
    /\ UNCHANGED <<sourcePath, maxFileSize, probe, segmentTime,
                   transcodeCalls, manifest, audioSegments>>
    /\ UNCHANGED <<textVars, runVars, cmdVars, mainVars, listenerVars>>

\* file(listFilePath).text() resolves and the rows are parsed
ManifestRead ==
    /\ apc = "reading"
    /\ LET parsed == parseManifest(manifest, sourcePath.dir)
       IN  IF parsed.ok
           THEN /\ apc' = "returned"
                /\ audioSegments' = parsed.segments
                /\ audioError' = audioError
           ELSE /\ apc' = "failed"
                /\ audioSegments' = audioSegments
                /\ audioError' = "Failed to parse CSV file."
    /\ UNCHANGED <<sourcePath, maxFileSize, probe, segmentTime,
                   transcodeCalls, manifest>>
    /\ UNCHANGED <<textVars, runVars, cmdVars, mainVars, listenerVars>>

\* file(listFilePath).text() rejects
ManifestReadFails ==
    /\ apc = "reading"
    /\ apc' = "failed"
    /\ audioError' = "read"
    /\ UNCHANGED <<sourcePath, maxFileSize, probe, segmentTime,
                   transcodeCalls, manifest, audioSegments>>
    /\ UNCHANGED <<textVars, runVars, cmdVars, mainVars, listenerVars>>

NoProbe == [duration |-> 0, size |-> 0]



AudioNext ==
    \/ \E duration \in ProbeDurations, size \in ProbeSizes : ProbeResolves(duration, size)
    \/ ProbeFails
    \/ \E rows \in PossibleManifests(sourcePath, probe.duration, segmentTime) : TranscodeEnds(rows)
    \/ TranscodeFails
    \/ ManifestRead
    \/ ManifestReadFails

\* ------------------------------------------------------------- transcribe
\* (transcribe.ts)  Each action is the code between two awaits.

\* a throw inside the try block: the finally block starts, rmdir is called
throwInTry(stage) ==
    /\ rpc' = "cleanup"
    /\ pending' = "rejected"
    /\ runError' = stage
    /\ stageLog' = Append(stageLog, "cleanup")

\* results.push(...) in the "results" revision; the other revisions keep
\* each promise in a constant of its own
pushed(name) == IF revision = "results" THEN Append(results, name) ELSE results

\* the transcription that the speech model returns for the k-th segment
spokenText(k) == [j \in 1..k |-> "a"]

\* the fields transcribe asks for
requestedFields == {"name", "webViewLink", "mimeType", "parents"}

\* before the response: no field is known
NoSourceFile == [f \in requestedFields |-> "pending"]

\* what the Drive API can answer: a field is left out ("absent"), a string
\* field can be empty, parents can be [] ("empty") or hold the folder id
MetadataResponses ==
    [name : {"absent", "interview"},
     webViewLink : {"absent", "link"},
     mimeType : {"absent", "", "video", "audio", "text"},
     parents : {"absent", "empty", "one"}]

\* !data[field]: undefined and "" are falsy, an array is truthy
falsy(value) == value \in {"absent", ""}

\* (variant: only the name is tested)
missingField_nameOnly(data, fields) == falsy(data["name"])

\* fields.some((field) => !data[field])
missingField(data, fields) == \E f \in fields : falsy(data[f])

\* the files.get request resolves with data: getFileMetadata tests the
\* fields, transcribe tests the mimeType and calls mkdtemp
MetadataResolves(data) ==
    /\ rpc = "metadata"
    /\ sourceFile' = data
    /\ IF missingField(data, requestedFields)
       THEN /\ rpc' = "ended"
            /\ outcome' = "rejected"
            /\ runError' = "Failed to get file metadata."
            /\ UNCHANGED <<fileType, hasParent, stageLog>>
       ELSE IF revision = "results" /\ data.mimeType # "video"
       THEN /\ rpc' = "ended"
            /\ outcome' = "rejected"
            /\ runError' = "Specified file is not a video."
            /\ UNCHANGED <<fileType, hasParent, stageLog>>
       ELSE IF data.mimeType \notin {"video", "audio"}
       THEN /\ rpc' = "ended"
            /\ outcome' = "rejected"
            /\ runError' = "Specified file is not a video nor an audio."
            /\ UNCHANGED <<fileType, hasParent, stageLog>>
       ELSE /\ fileType' = data.mimeType
            /\ hasParent' = (data.parents = "one")
            /\ rpc' = "mkdtemp"
            /\ stageLog' = Append(stageLog, "mkdtemp")
            /\ UNCHANGED <<outcome, runError>>
    /\ UNCHANGED <<revision, results, returned, tempDir, parentFolder, audioFile,
                   transcriptionFile, proofreadFile, segStatus, completed, transcribeCalls, transcribedText, pending>>
    /\ UNCHANGED <<textVars, audioVars, cmdVars, mainVars, listenerVars>>

\* the files.get request rejects
MetadataFails ==
    /\ rpc = "metadata"
    /\ rpc' = "ended"
    /\ outcome' = "rejected"
    /\ runError' = "fetch-metadata"
    /\ UNCHANGED <<revision, results, returned, sourceFile, fileType, hasParent, tempDir, parentFolder, audioFile,
                   transcriptionFile, proofreadFile, segStatus, completed, transcribeCalls,
                   transcribedText, stageLog, pending>>
    /\ UNCHANGED <<textVars, audioVars, cmdVars, mainVars, listenerVars>>

\* mkdtemp resolves: the try block is entered and downloadFile is called
MkdtempResolves ==
    /\ rpc = "mkdtemp"
    /\ tempDir' = "exists"
    /\ rpc' = "download"
    /\ stageLog' = Append(stageLog, "download")
    /\ UNCHANGED <<revision, results, returned, sourceFile, fileType, hasParent, parentFolder, audioFile,
                   transcriptionFile, proofreadFile, segStatus, completed, transcribeCalls,
                   transcribedText, pending, runError, outcome>>
    /\ UNCHANGED <<textVars, audioVars, cmdVars, mainVars, listenerVars>>

\* mkdtemp rejects, before the try block
MkdtempFails ==
    /\ rpc = "mkdtemp"
    /\ rpc' = "ended"
    /\ outcome' = "rejected"
    /\ runError' = "mkdtemp"
    /\ UNCHANGED <<revision, results, returned, sourceFile, fileType, hasParent, tempDir, parentFolder, audioFile,
                   transcriptionFile, proofreadFile, segStatus, completed, transcribeCalls,
                   transcribedText, stageLog, pending>>
    /\ UNCHANGED <<textVars, audioVars, cmdVars, mainVars, listenerVars>>

\* (variant: extractAudio is called whatever the file type)
DownloadResolves_alwaysExtracts ==
    /\ rpc = "download"
    /\ parentFolder' = IF hasParent THEN "pending" ELSE "none"
    /\ results' = IF revision = "results" /\ hasParent
                  THEN Append(results, "parentFolder") ELSE results
    /\ rpc' = "extract"
    /\ stageLog' = Append(stageLog, "extract-audio")
    /\ UNCHANGED <<revision, returned, sourceFile, fileType, hasParent, tempDir,
                   audioFile, transcriptionFile, proofreadFile, segStatus,
                   completed, transcribeCalls, transcribedText, pending,
                   runError, outcome>>
    /\ UNCHANGED <<textVars, audioVars, cmdVars, mainVars, listenerVars>>

\* downloadFile resolves: the parent folder lookup is started, then
\* extractAudio (video) or removeSilence (audio) is called
DownloadResolves ==
    /\ rpc = "download"
    /\ parentFolder' = IF hasParent THEN "pending" ELSE "none"
    /\ results' = IF revision = "results" /\ hasParent
                  THEN Append(results, "parentFolder") ELSE results
    /\ IF fileType = "audio"
       THEN /\ rpc' = "silence"
            /\ stageLog' = Append(stageLog, "silence")
       ELSE /\ rpc' = "extract"
            /\ stageLog' = Append(stageLog, "extract-audio")
    /\ UNCHANGED <<revision, returned, sourceFile, fileType, hasParent, tempDir, audioFile,
                   transcriptionFile, proofreadFile, segStatus, completed, transcribeCalls,
                   transcribedText, pending, runError, outcome>>
    /\ UNCHANGED <<textVars, audioVars, cmdVars, mainVars, listenerVars>>

\* (variant: the download runs before the try block)
DownloadFails_outsideTry ==
    /\ rpc = "download"
    /\ rpc' = "ended"
    /\ outcome' = "rejected"
    /\ runError' = "download"
    /\ UNCHANGED <<revision, results, returned, sourceFile, fileType, hasParent, tempDir, parentFolder, audioFile,
                   transcriptionFile, proofreadFile, segStatus, completed, transcribeCalls,
                   transcribedText, stageLog, pending>>
    /\ UNCHANGED <<textVars, audioVars, cmdVars, mainVars, listenerVars>>

\* downloadFile rejects
DownloadFails ==
    /\ rpc = "download"
    /\ throwInTry("download")
    /\ UNCHANGED <<revision, results, returned, sourceFile, fileType, hasParent, tempDir, parentFolder, audioFile,
                   transcriptionFile, proofreadFile, segStatus, completed, transcribeCalls,
                   transcribedText, outcome>>
    /\ UNCHANGED <<textVars, audioVars, cmdVars, mainVars, listenerVars>>

\* extractAudio resolves: the audio upload is started (not awaited) and
\* removeSilence is called
ExtractResolves ==
    /\ rpc = "extract"
    /\ audioFile' = "pending"
    /\ results' = pushed("audioFile")
    /\ rpc' = "silence"
    /\ stageLog' = stageLog \o <<"upload-audio", "silence">>
    /\ UNCHANGED <<revision, returned, sourceFile, fileType, hasParent, tempDir, parentFolder,
                   transcriptionFile, proofreadFile, segStatus, completed, transcribeCalls,
                   transcribedText, pending, runError, outcome>>
    /\ UNCHANGED <<textVars, audioVars, cmdVars, mainVars, listenerVars>>

\* (variant: the source file is uploaded when the extraction fails)
ExtractFails_startsUpload ==
    /\ rpc = "extract"
    /\ throwInTry("extract-audio")
    /\ audioFile' = "pending"
    /\ UNCHANGED <<revision, results, returned, sourceFile, fileType,
                   hasParent, tempDir, parentFolder, transcriptionFile,
                   proofreadFile, segStatus, completed, transcribeCalls,
                   transcribedText, outcome>>
    /\ UNCHANGED <<textVars, audioVars, cmdVars, mainVars, listenerVars>>

\* extractAudio rejects
ExtractFails ==
    /\ rpc = "extract"
    /\ throwInTry("extract-audio")
    /\ UNCHANGED <<revision, results, returned, sourceFile, fileType, hasParent, tempDir, parentFolder, audioFile,
                   transcriptionFile, proofreadFile, segStatus, completed, transcribeCalls,
                   transcribedText, outcome>>
    /\ UNCHANGED <<textVars, audioVars, cmdVars, mainVars, listenerVars>>

\* removeSilence resolves: splitAudio(noSilenceAudioFilePath,
\* maxAudioFileDuration) is called (whisperMaxFileSize * 0.95 in the
\* "proofread" and "results" revisions)
SilenceResolves ==
    /\ rpc = "silence"
    /\ rpc' = "split"
    /\ stageLog' = Append(stageLog, "split")
    /\ apc' = "probing"
    /\ sourcePath' = [dir |-> "tempDir", file |-> <<"no_silence">>]
    /\ maxFileSize' = IF revision \in {"proofread", "results"}
                      THEN (whisperMaxFileSize \div 100) * 95
                      ELSE maxAudioFileDuration
    /\ UNCHANGED <<probe, segmentTime, transcodeCalls, manifest,
                   audioSegments, audioError>>
    /\ UNCHANGED <<revision, results, returned, sourceFile, fileType, hasParent, tempDir, parentFolder, audioFile,
                   transcriptionFile, proofreadFile, segStatus, completed, transcribeCalls,
                   transcribedText, pending, runError, outcome>>
    /\ UNCHANGED <<textVars, cmdVars, mainVars, listenerVars>>

\* removeSilence rejects
SilenceFails ==
    /\ rpc = "silence"
    /\ throwInTry("silence")
    /\ UNCHANGED <<revision, results, returned, sourceFile, fileType, hasParent, tempDir, parentFolder, audioFile,
                   transcriptionFile, proofreadFile, segStatus, completed, transcribeCalls,
                   transcribedText, outcome>>
    /\ UNCHANGED <<textVars, audioVars, cmdVars, mainVars, listenerVars>>

\* splitAudio resolves: transcribeAudioFile is called for every segment, in
\* the map inside Promise.all
SplitResolves ==
    /\ rpc = "split"
    /\ apc = "returned"
    /\ rpc' = "transcribing"
    /\ stageLog' = Append(stageLog, "transcribe-each-segment")
    /\ segStatus' = [k \in 1..Len(audioSegments) |-> [state |-> "pending", text |-> <<>>]]
    /\ transcribeCalls' = [k \in 1..Len(audioSegments) |-> 1]
    /\ completed' = <<>>
    /\ UNCHANGED <<revision, results, returned, sourceFile, fileType, hasParent, tempDir, parentFolder, audioFile,
                   transcriptionFile, proofreadFile, transcribedText, pending, runError,
                   outcome>>
    /\ UNCHANGED <<textVars, audioVars, cmdVars, mainVars, listenerVars>>

\* splitAudio rejects
SplitFails ==
    /\ rpc = "split"
    /\ apc = "failed"
    /\ throwInTry("split")
    /\ UNCHANGED <<revision, results, returned, sourceFile, fileType, hasParent, tempDir, parentFolder, audioFile,
                   transcriptionFile, proofreadFile, segStatus, completed, transcribeCalls,
                   transcribedText, outcome>>
    /\ UNCHANGED <<textVars, audioVars, cmdVars, mainVars, listenerVars>>

\* transcribeAudioFile of segment k resolves
SegmentTranscribed(k) ==
    /\ rpc = "transcribing"
    /\ k \in 1..Len(segStatus)
    /\ segStatus[k].state = "pending"
    /\ segStatus' = [segStatus EXCEPT ![k] = [state |-> "done", text |-> spokenText(k)]]
    /\ completed' = Append(completed, k)
    /\ UNCHANGED <<rpc, revision, results, returned, sourceFile, fileType, hasParent, tempDir, parentFolder, audioFile,
                   transcriptionFile, proofreadFile, transcribeCalls, transcribedText,
                   stageLog, pending, runError, outcome>>
    /\ UNCHANGED <<textVars, audioVars, cmdVars, mainVars, listenerVars>>

\* (variant: a rejected call is made again)
SegmentFails_retries(k) ==
    /\ rpc = "transcribing"
    /\ k \in 1..Len(segStatus)
    /\ segStatus[k].state = "pending"
    /\ transcribeCalls[k] < 2
    /\ transcribeCalls' = [transcribeCalls EXCEPT ![k] = @ + 1]
    /\ UNCHANGED <<rpc, revision, results, returned, sourceFile, fileType, hasParent, tempDir,
                   parentFolder, audioFile, transcriptionFile, proofreadFile,
                   segStatus, completed, transcribedText, stageLog, pending,
                   runError, outcome>>
    /\ UNCHANGED <<textVars, audioVars, cmdVars, mainVars, listenerVars>>

\* transcribeAudioFile of segment k rejects: Promise.all rejects at once
SegmentFails(k) ==
    /\ rpc = "transcribing"
    /\ k \in 1..Len(segStatus)
    /\ segStatus[k].state = "pending"
    /\ segStatus' = [segStatus EXCEPT ![k].state = "failed"]
    /\ UNCHANGED completed
    /\ throwInTry("transcribe-each-segment")
    /\ UNCHANGED <<revision, results, returned, sourceFile, fileType, hasParent, tempDir, parentFolder, audioFile,
                   transcriptionFile, proofreadFile, transcribeCalls, transcribedText,
                   outcome>>
    /\ UNCHANGED <<textVars, audioVars, cmdVars, mainVars, listenerVars>>

\* (variant: the results are collected in the order the calls resolve)
TranscriptionsJoined_completionOrder ==
    /\ rpc = "transcribing"
    /\ \A k \in 1..Len(segStatus) : segStatus[k].state = "done"
    /\ transcribedText' = join([i \in 1..Len(completed) |-> segStatus[completed[i]].text], <<NL>>)
    /\ rpc' = "write"
    /\ stageLog' = Append(stageLog, "concatenate")
    /\ UNCHANGED <<revision, results, returned, sourceFile, fileType, hasParent, tempDir, parentFolder, audioFile,
                   transcriptionFile, proofreadFile, segStatus, completed, transcribeCalls, pending,
                   runError, outcome>>
    /\ UNCHANGED <<textVars, audioVars, cmdVars, mainVars, listenerVars>>

\* Promise.all resolves with the results in the order of the mapped array:
\* transcriptions.join("\n"), then write is called
TranscriptionsJoined ==
    /\ rpc = "transcribing"
    /\ \A k \in 1..Len(segStatus) : segStatus[k].state = "done"
    /\ transcribedText' = join([k \in 1..Len(segStatus) |-> segStatus[k].text], <<NL>>)
    /\ rpc' = "write"
    /\ stageLog' = Append(stageLog, "concatenate")
    /\ UNCHANGED <<revision, results, returned, sourceFile, fileType, hasParent, tempDir, parentFolder, audioFile,
                   transcriptionFile, proofreadFile, segStatus, completed, transcribeCalls, pending,
                   runError, outcome>>
    /\ UNCHANGED <<textVars, audioVars, cmdVars, mainVars, listenerVars>>

\* write resolves: the transcription upload is started; then either
\* proofreadTranscription is called or the return expression begins with
\* "await parentFolder"
WriteResolves ==
    /\ rpc = "write"
    /\ transcriptionFile' = "pending"
    /\ results' = pushed("transcriptionFile")
    /\ IF revision \in {"proofread", "results"}
       THEN /\ rpc' = "proofread"
            /\ stageLog' = stageLog \o <<"upload-transcription", "proofread">>
       ELSE /\ rpc' = "await_parent"
            /\ stageLog' = Append(stageLog, "upload-transcription")
    /\ UNCHANGED <<revision, returned, sourceFile, fileType, hasParent, tempDir,
                   parentFolder, audioFile, proofreadFile, segStatus,
                   completed, transcribeCalls, transcribedText, pending,
                   runError, outcome>>
    /\ UNCHANGED <<textVars, audioVars, cmdVars, mainVars, listenerVars>>

\* write rejects
WriteFails ==
    /\ rpc = "write"
    /\ throwInTry("write")
    /\ UNCHANGED <<revision, results, returned, sourceFile, fileType, hasParent, tempDir,
                   parentFolder, audioFile, transcriptionFile, proofreadFile,
                   segStatus, completed, transcribeCalls, transcribedText,
                   outcome>>
    /\ UNCHANGED <<textVars, audioVars, cmdVars, mainVars, listenerVars>>

\* proofreadTranscription resolves: write is called for the proofread text
ProofreadResolves ==
    /\ rpc = "proofread"
    /\ rpc' = "write_proofread"
    /\ UNCHANGED <<revision, results, returned, sourceFile, fileType, hasParent, tempDir,
                   parentFolder, audioFile, transcriptionFile, proofreadFile,
                   segStatus, completed, transcribeCalls, transcribedText,
                   stageLog, pending, runError, outcome>>
    /\ UNCHANGED <<textVars, audioVars, cmdVars, mainVars, listenerVars>>

\* proofreadTranscription rejects
ProofreadFails ==
    /\ rpc = "proofread"
    /\ throwInTry("proofread")
    /\ UNCHANGED <<revision, results, returned, sourceFile, fileType, hasParent, tempDir,
                   parentFolder, audioFile, transcriptionFile, proofreadFile,
                   segStatus, completed, transcribeCalls, transcribedText,
                   outcome>>
    /\ UNCHANGED <<textVars, audioVars, cmdVars, mainVars, listenerVars>>

\* the write of the proofread text resolves: the proofread upload is started
\* and the return expression begins with "await parentFolder" (in the
\* "results" revision "await Promise.all(results)" follows)
ProofreadWriteResolves ==
    /\ rpc = "write_proofread"
    /\ proofreadFile' = "pending"
    /\ results' = pushed("proofreadFile")
    /\ rpc' = IF revision = "results" THEN "await_results" ELSE "await_parent"
    /\ stageLog' = Append(stageLog, "upload-proofread")
    /\ UNCHANGED <<revision, returned, sourceFile, fileType, hasParent, tempDir,
                   parentFolder, audioFile, transcriptionFile, segStatus,
                   completed, transcribeCalls, transcribedText, pending,
                   runError, outcome>>
    /\ UNCHANGED <<textVars, audioVars, cmdVars, mainVars, listenerVars>>

\* the write of the proofread text rejects
ProofreadWriteFails ==
    /\ rpc = "write_proofread"
    /\ throwInTry("write")
    /\ UNCHANGED <<revision, results, returned, sourceFile, fileType, hasParent, tempDir,
                   parentFolder, audioFile, transcriptionFile, proofreadFile,
                   segStatus, completed, transcribeCalls, transcribedText,
                   outcome>>
    /\ UNCHANGED <<textVars, audioVars, cmdVars, mainVars, listenerVars>>

\* a started lookup or upload settles, at any time
PromiseSettles(which, result) ==
    /\ which \in {"parentFolder", "audioFile", "transcriptionFile",
                  "proofreadFile"}
    /\ result \in {"resolved", "rejected"}
    /\ \/ which = "parentFolder" /\ parentFolder = "pending"
          /\ parentFolder' = result
          /\ UNCHANGED <<audioFile, transcriptionFile, proofreadFile>>
       \/ which = "audioFile" /\ audioFile = "pending"
          /\ audioFile' = result
          /\ UNCHANGED <<parentFolder, transcriptionFile, proofreadFile>>
       \/ which = "transcriptionFile" /\ transcriptionFile = "pending"
          /\ transcriptionFile' = result
          /\ UNCHANGED <<parentFolder, audioFile, proofreadFile>>
       \/ which = "proofreadFile" /\ proofreadFile = "pending"
          /\ proofreadFile' = result
          /\ UNCHANGED <<parentFolder, audioFile, transcriptionFile>>
    /\ UNCHANGED <<rpc, revision, results, returned, sourceFile, fileType, hasParent, tempDir,
                   segStatus, completed, transcribeCalls, transcribedText,
                   stageLog, pending, runError, outcome>>
    /\ UNCHANGED <<textVars, audioVars, cmdVars, mainVars, listenerVars>>

\* the object of the return expression: each property is the value of the
\* constant of its name
returnValue ==
    [parent |-> IF parentFolder = "none" THEN "undefined" ELSE "parentFolder",
     audio |-> IF audioFile = "none" THEN "undefined" ELSE "audioFile",
     transcription |-> "transcriptionFile",
     proofreadTranscription |->
         IF revision = "proofread" THEN "proofreadFile" ELSE "undefined"]

\* "await parentFolder" completes (at once when parentFolder is undefined)
AwaitParent ==
    /\ rpc = "await_parent"
    /\ parentFolder # "pending"
    /\ IF parentFolder = "rejected"
       THEN throwInTry("parent-folder")
       ELSE /\ rpc' = "await_audio"
            /\ UNCHANGED <<pending, runError, stageLog>>
    /\ UNCHANGED <<revision, results, returned, sourceFile, fileType, hasParent, tempDir,
                   parentFolder, audioFile, transcriptionFile, proofreadFile,
                   segStatus, completed, transcribeCalls, transcribedText,
                   outcome>>
    /\ UNCHANGED <<textVars, audioVars, cmdVars, mainVars, listenerVars>>

\* "await audioFile" completes (at once when audioFile is undefined)
AwaitAudio ==
    /\ rpc = "await_audio"
    /\ audioFile # "pending"
    /\ IF audioFile = "rejected"
       THEN throwInTry("upload-audio")
       ELSE /\ rpc' = "await_transcription"
            /\ UNCHANGED <<pending, runError, stageLog>>
    /\ UNCHANGED <<revision, results, returned, sourceFile, fileType, hasParent, tempDir,
                   parentFolder, audioFile, transcriptionFile, proofreadFile,
                   segStatus, completed, transcribeCalls, transcribedText,
                   outcome>>
    /\ UNCHANGED <<textVars, audioVars, cmdVars, mainVars, listenerVars>>

\* "await transcriptionFile" completes: "await proofreadFile" follows, or the
\* try block returns and the finally block starts
AwaitTranscription ==
    /\ rpc = "await_transcription"
    /\ transcriptionFile # "pending"
    /\ IF transcriptionFile = "rejected"
       THEN throwInTry("upload-transcription") /\ UNCHANGED returned
       ELSE IF revision = "proofread"
       THEN /\ rpc' = "await_proofread"
            /\ UNCHANGED <<pending, runError, stageLog, returned>>
       ELSE /\ rpc' = "cleanup"
            /\ pending' = "resolved"
            /\ returned' = returnValue
            /\ stageLog' = Append(stageLog, "cleanup")
            /\ UNCHANGED runError
    /\ UNCHANGED <<revision, results, sourceFile, fileType, hasParent, tempDir,
                   parentFolder, audioFile, transcriptionFile, proofreadFile,
                   segStatus, completed, transcribeCalls, transcribedText,
                   outcome>>
    /\ UNCHANGED <<textVars, audioVars, cmdVars, mainVars, listenerVars>>

\* "await proofreadFile" completes: the try block returns and the finally
\* block starts
AwaitProofread ==
    /\ rpc = "await_proofread"
    /\ proofreadFile # "pending"
    /\ IF proofreadFile = "rejected"
       THEN throwInTry("upload-proofread") /\ UNCHANGED returned
       ELSE /\ rpc' = "cleanup"
            /\ pending' = "resolved"
            /\ returned' = returnValue
            /\ stageLog' = Append(stageLog, "cleanup")
            /\ UNCHANGED runError
    /\ UNCHANGED <<revision, results, sourceFile, fileType, hasParent, tempDir,
                   parentFolder, audioFile, transcriptionFile, proofreadFile,
                   segStatus, completed, transcribeCalls, transcribedText,
                   outcome>>
    /\ UNCHANGED <<textVars, audioVars, cmdVars, mainVars, listenerVars>>

\* state of the promise of a name
promiseState(name) ==
    CASE name = "parentFolder" -> parentFolder
      [] name = "audioFile" -> audioFile
      [] name = "transcriptionFile" -> transcriptionFile
      [] name = "proofreadFile" -> proofreadFile

\* the error an upload or lookup rejects with, by the promise's name
rejectionOf(name) ==
    CASE name = "parentFolder" -> "parent-folder"
      [] name = "audioFile" -> "upload-audio"
      [] name = "transcriptionFile" -> "upload-transcription"
      [] name = "proofreadFile" -> "upload-proofread"

\* element k of an array, undefined past its end
at(array, k) == IF k <= Len(array) THEN array[k] ELSE "undefined"

\* "await Promise.all(results)" rejects: one of the promises has rejected
AwaitResultsRejects ==
    /\ rpc = "await_results"
    /\ \E k \in 1..Len(results) :
          /\ promiseState(results[k]) = "rejected"
          /\ throwInTry(rejectionOf(results[k]))
    /\ UNCHANGED <<revision, results, returned, sourceFile, fileType,
                   hasParent, tempDir, parentFolder, audioFile,
                   transcriptionFile, proofreadFile, segStatus, completed,
                   transcribeCalls, transcribedText, outcome>>
    /\ UNCHANGED <<textVars, audioVars, cmdVars, mainVars, listenerVars>>

\* "await Promise.all(results)" resolves with the values in the order of
\* the list; const [parentFolder, audioFile, transcriptionFile,
\* proofreadFile] takes them by position, and the test of the last three
\* throws or the try block returns
AwaitResultsResolves ==
    /\ rpc = "await_results"
    /\ \A k \in 1..Len(results) : promiseState(results[k]) = "resolved"
    /\ LET destructured == [parent |-> at(results, 1),
                            audio |-> at(results, 2),
                            transcription |-> at(results, 3),
                            proofreadTranscription |-> at(results, 4)]
       IN  IF \/ destructured.audio = "undefined"
              \/ destructured.transcription = "undefined"
              \/ destructured.proofreadTranscription = "undefined"
           THEN /\ throwInTry("Failed to upload files.")
                /\ UNCHANGED returned
           ELSE /\ rpc' = "cleanup"
                /\ pending' = "resolved"
                /\ returned' = destructured
                /\ stageLog' = Append(stageLog, "cleanup")
                /\ UNCHANGED runError
    /\ UNCHANGED <<revision, results, sourceFile, fileType, hasParent,
                   tempDir, parentFolder, audioFile, transcriptionFile,
                   proofreadFile, segStatus, completed, transcribeCalls,
                   transcribedText, outcome>>
    /\ UNCHANGED <<textVars, audioVars, cmdVars, mainVars, listenerVars>>

\* finally: "await rmdir(tempDir, { recursive: true })" resolves and the
\* pending return or throw of the try block completes the call
Cleanup ==
    /\ rpc = "cleanup"
    /\ tempDir' = "removed"
    /\ outcome' = pending
    /\ rpc' = "ended"
    /\ UNCHANGED <<revision, results, returned, sourceFile, fileType, hasParent, parentFolder, audioFile,
                   transcriptionFile, proofreadFile, segStatus, completed, transcribeCalls,
                   transcribedText, stageLog, pending, runError>>
    /\ UNCHANGED <<textVars, audioVars, cmdVars, mainVars, listenerVars>>



\* segments of the longest list a run can get (2400 s in pieces of 600 s)
MaxRunSegments == 4

RunNext ==
    \/ \E data \in MetadataResponses : MetadataResolves(data)
    \/ MetadataFails
    \/ MkdtempResolves
    \/ MkdtempFails
    \/ DownloadResolves
    \/ DownloadFails
    \/ ExtractResolves
    \/ ExtractFails
    \/ SilenceResolves
    \/ SilenceFails
    \/ AudioNext
    \/ SplitResolves
    \/ SplitFails
    \/ \E k \in 1..MaxRunSegments : SegmentTranscribed(k)
    \/ \E k \in 1..MaxRunSegments : SegmentFails(k)
    \/ TranscriptionsJoined
    \/ WriteResolves
    \/ WriteFails
    \/ ProofreadResolves
    \/ ProofreadFails
    \/ ProofreadWriteResolves
    \/ ProofreadWriteFails
    \/ \E which \in {"parentFolder", "audioFile", "transcriptionFile",
                     "proofreadFile"},
          result \in {"resolved", "rejected"} : PromiseSettles(which, result)
    \/ AwaitParent
    \/ AwaitAudio
    \/ AwaitTranscription
    \/ AwaitProofread
    \/ AwaitResultsRejects
    \/ AwaitResultsResolves
    \/ Cleanup

\* ------------------------------------------------- the transcribe command
\* (createTranscribeCommand().execute in transcribe.ts; the revision that
\* proofreads has the same handler)

\* [-\w]{25,}: the least length of a file id
minFileIdLength == 25

\* URLs by their parts: scheme "://" host "/" folder "/" marker "/" id tail
Urls ==
    [scheme : {"https", "ftp"},
     host : {"drive.google.com", "example.com"},
     folder : {"", "file"},
     marker : {"d", "folders", "view"},
     idLength : {minFileIdLength - 1, minFileIdLength},
     tail : {"", "/view", "?usp"}]

\* regex.exec(url)?.[1] with the regex
\* ^https?://(drive|docs).google.com/[^\s'")]+/(d|e|folders)/([-\w]{25,})
\* (/[^\s'")]*[^\s")'.?!])?$
extractFileId(url) ==
    IF /\ url.scheme \in {"https", "http"}
       /\ url.host \in {"drive.google.com", "docs.google.com"}
       /\ url.folder # ""
       /\ url.marker \in {"d", "e", "folders"}
       /\ url.idLength >= minFileIdLength
       /\ url.tail \in {"", "/view"}
    THEN "fileId" ELSE "undefined"

\* a call on the interaction, not yet settled
discordCall(method, kind, text) ==
    [method |-> method, kind |-> kind, text |-> text, result |-> "pending"]

\* (variant: the reply is deferred before the URL is tested)
Execute_defersFirst ==
    /\ cpc = "invoked"
    /\ IF extractFileId(sourceUrl) = "undefined"
       THEN /\ discordCalls' = <<discordCall("deferReply", "defer", ""),
                                 discordCall("reply", "content", "Invalid file URL.")>>
            /\ cpc' = "replying"
            /\ UNCHANGED <<rpc, stageLog>>
       ELSE /\ discordCalls' = <<discordCall("deferReply", "defer", "")>>
            /\ cpc' = "running"
            /\ rpc' = "metadata"
            /\ stageLog' = <<"fetch-metadata">>
    /\ UNCHANGED <<sourceUrl, caught>>
    /\ UNCHANGED <<revision, results, returned, sourceFile, fileType, hasParent, tempDir,
                   parentFolder, audioFile, transcriptionFile, proofreadFile,
                   segStatus, completed, transcribeCalls, transcribedText,
                   pending, runError, outcome>>
    /\ UNCHANGED <<textVars, audioVars, mainVars, listenerVars>>

\* execute up to its first await: the URL is tested; either reply is called,
\* or deferReply is called without await and then transcribe
Execute ==
    /\ cpc = "invoked"
    /\ IF extractFileId(sourceUrl) = "undefined"
       THEN /\ discordCalls' = <<discordCall("reply", "content", "Invalid file URL.")>>
            /\ cpc' = "replying"
            /\ UNCHANGED <<rpc, stageLog>>
       ELSE /\ discordCalls' = <<discordCall("deferReply", "defer", "")>>
            /\ cpc' = "running"
            /\ rpc' = "metadata"
            /\ stageLog' = <<"fetch-metadata">>
    /\ UNCHANGED <<sourceUrl, caught>>
    /\ UNCHANGED <<revision, results, returned, sourceFile, fileType, hasParent, tempDir,
                   parentFolder, audioFile, transcriptionFile, proofreadFile,
                   segStatus, completed, transcribeCalls, transcribedText,
                   pending, runError, outcome>>
    /\ UNCHANGED <<textVars, audioVars, mainVars, listenerVars>>

\* "await interaction.reply(...)" settles: execute returns or rejects
ReplySettles(result) ==
    /\ cpc = "replying"
    /\ result \in {"resolved", "rejected"}
    /\ discordCalls' = [discordCalls EXCEPT ![1].result = result]
    /\ cpc' = IF result = "resolved" THEN "returned" ELSE "threw"
    /\ UNCHANGED <<sourceUrl, caught>>
    /\ UNCHANGED <<textVars, audioVars, runVars, mainVars, listenerVars>>

\* the deferReply call settles, at any time
DeferSettles(result) ==
    /\ result \in {"resolved", "rejected"}
    /\ Len(discordCalls) > 0
    /\ discordCalls[1].method = "deferReply"
    /\ discordCalls[1].result = "pending"
    /\ discordCalls' = [discordCalls EXCEPT ![1].result = result]
    /\ UNCHANGED <<cpc, sourceUrl, caught>>
    /\ UNCHANGED <<textVars, audioVars, runVars, mainVars, listenerVars>>

\* (variant: the error reply has a fixed description)
TranscribeSettles_fixedDescription ==
    /\ cpc = "running"
    /\ rpc = "ended"
    /\ IF outcome = "resolved"
       THEN /\ discordCalls' = Append(discordCalls,
                                      discordCall("editReply", "success", "summary"))
            /\ cpc' = "edit_success"
            /\ UNCHANGED caught
       ELSE /\ discordCalls' = Append(discordCalls,
                                      discordCall("editReply", "error", "Error"))
            /\ cpc' = "edit_error"
            /\ caught' = runError
    /\ UNCHANGED sourceUrl
    /\ UNCHANGED <<textVars, audioVars, runVars, mainVars, listenerVars>>

\* "await transcribe(...)" settles: editReply is called with the summary, or
\* the catch block calls it with the error's message
TranscribeSettles ==
    /\ cpc = "running"
    /\ rpc = "ended"
    /\ IF outcome = "resolved"
       THEN /\ discordCalls' = Append(discordCalls,
                                      discordCall("editReply", "success", "summary"))
            /\ cpc' = "edit_success"
            /\ UNCHANGED caught
       ELSE /\ discordCalls' = Append(discordCalls,
                                      discordCall("editReply", "error", runError))
            /\ cpc' = "edit_error"
            /\ caught' = runError
    /\ UNCHANGED sourceUrl
    /\ UNCHANGED <<textVars, audioVars, runVars, mainVars, listenerVars>>

\* (variant: the success edit is made outside the try block)
EditSettles_successOutsideTry(result) ==
    /\ cpc \in {"edit_success", "edit_error"}
    /\ result \in {"resolved", "rejected"}
    /\ discordCalls' = [discordCalls EXCEPT ![Len(discordCalls)].result = result]
    /\ cpc' = IF result = "resolved" THEN "returned" ELSE "threw"
    /\ UNCHANGED <<sourceUrl, caught>>
    /\ UNCHANGED <<textVars, audioVars, runVars, mainVars, listenerVars>>

\* "await interaction.editReply(...)" settles.  The success edit is inside
\* the try block: when it rejects, the catch block calls editReply with that
\* error's message.  The edit of the catch block ends execute either way.
EditSettles(result) ==
    /\ cpc \in {"edit_success", "edit_error"}
    /\ result \in {"resolved", "rejected"}
    /\ LET settled == [discordCalls EXCEPT ![Len(discordCalls)].result = result]
       IN  IF cpc = "edit_success" /\ result = "rejected"
           THEN /\ discordCalls' = Append(settled,
                                          discordCall("editReply", "error", "editReply rejected"))
                /\ cpc' = "edit_error"
                /\ caught' = "editReply rejected"
           ELSE /\ discordCalls' = settled
                /\ cpc' = IF result = "resolved" THEN "returned" ELSE "threw"
                /\ UNCHANGED caught
    /\ UNCHANGED sourceUrl
    /\ UNCHANGED <<textVars, audioVars, runVars, mainVars, listenerVars>>

CommandNext ==
    \/ Execute
    \/ \E result \in {"resolved", "rejected"} : ReplySettles(result)
    \/ \E result \in {"resolved", "rejected"} : DeferSettles(result)
    \/ TranscribeSettles
    \/ \E result \in {"resolved", "rejected"} : EditSettles(result)
    \/ RunNext

\* ------------------------------------------------------------------- main
\* (main.ts: the modules it imports are evaluated, then its body runs up to
\* discordClient.login)

\* the startup checks, in the order main makes them
startupChecks == <<"ffmpeg", "openai", "gemini", "drive">>

\* (variant: only variables that are not defined count as missing)
missingEnv_absentOnly(e) == {name \in requiredEnvs : e[name] = "absent"}

\* requiredEnvs.filter((name) => !env[name])
missingEnv(e) == {name \in requiredEnvs : e[name] \in {"absent", "empty"}}

\* the process ends with the given status
exit(status) ==
    /\ mpc' = "exited"
    /\ exitStatus' = status

\* evaluating an imported module throws, which ends the process with status
\* 1: gdrive.ts calls env.GOOGLE_SERVICE_ACCOUNT_KEY.replace(...), a
\* TypeError when the variable is not defined; the OpenAI constructor of
\* ai.ts may refuse a missing key
ImportThrows ==
    /\ mpc = "import"
    /\ \/ env["GOOGLE_SERVICE_ACCOUNT_KEY"] = "absent"
       \/ env["OPENAI_API_KEY"] # "set"
    /\ exit(1)
    /\ UNCHANGED <<env, contacted>>
    /\ UNCHANGED <<textVars, audioVars, runVars, cmdVars, listenerVars>>

\* the imported modules are evaluated and the clients constructed
ImportsDone ==
    /\ mpc = "import"
    /\ env["GOOGLE_SERVICE_ACCOUNT_KEY"] # "absent"
    /\ mpc' = "env_check"
    /\ UNCHANGED <<env, contacted, exitStatus>>
    /\ UNCHANGED <<textVars, audioVars, runVars, cmdVars, listenerVars>>

\* the test of the required variables: process.exit(1) when one is missing,
\* else the first startup check is called
CheckEnvs ==
    /\ mpc = "env_check"
    /\ IF missingEnv(env) # {}
       THEN exit(1) /\ UNCHANGED contacted
       ELSE /\ mpc' = "check"
            /\ contacted' = <<startupChecks[1]>>
            /\ UNCHANGED exitStatus
    /\ UNCHANGED env
    /\ UNCHANGED <<textVars, audioVars, runVars, cmdVars, listenerVars>>

\* the awaited startup check resolves: the next one is called, or, after the
\* last one, discordClient.login
CheckResolves ==
    /\ mpc = "check"
    /\ IF Len(contacted) < Len(startupChecks)
       THEN /\ contacted' = Append(contacted, startupChecks[Len(contacted) + 1])
            /\ UNCHANGED mpc
       ELSE /\ contacted' = Append(contacted, "discord")
            /\ mpc' = "started"
    /\ UNCHANGED <<env, exitStatus>>
    /\ UNCHANGED <<textVars, audioVars, runVars, cmdVars, listenerVars>>

\* the awaited startup check rejects: the top-level await throws and the
\* process ends with status 1
CheckFails ==
    /\ mpc = "check"
    /\ exit(1)
    /\ UNCHANGED <<env, contacted>>
    /\ UNCHANGED <<textVars, audioVars, runVars, cmdVars, listenerVars>>

MainNext ==
    \/ ImportThrows
    \/ ImportsDone
    \/ CheckEnvs
    \/ CheckResolves
    \/ CheckFails


\* ------------------------------------------------------- commandsListener
\* env.DISCORD_GUILD_ID
configuredGuild == "configured"

\* guildId of an interaction: the configured guild, another guild, or null
\* for a direct message
GuildIds == {configuredGuild, "other", "null"}

\* ApplicationCommandType of an executable command
CommandTypes == {"ChatInput", "Message", "User"}

\* interactions by kind: the three kinds of command interaction and one
\* interaction that is not a command (a button)
InteractionKinds == {"ChatInput", "Message", "User", "Button"}

CommandNames == {"transcribe", "ping"}

Interactions == [kind : InteractionKinds, guildId : GuildIds, commandName : CommandNames]

\* longest table of commands
MaxCommands == 2

\* tables of executable commands: [createTranscribeCommand()] and the other
\* tables of at most MaxCommands entries
ExecutableCommand == [name : CommandNames, type : CommandTypes]

CommandTables == UNION {[1..n -> ExecutableCommand] : n \in 1..MaxCommands}

\* interaction.isCommand()
isCommand(i) == i.kind \in CommandTypes

\* (variant: the command type is not compared)
typeMatches_anyType(i, command) == isCommand(i)

\* interaction.isChatInputCommand() && command.type === ChatInput, and the
\* same for the message and user context menu commands
typeMatches(i, command) ==
    \/ i.kind = "ChatInput" /\ command.type = "ChatInput"
    \/ i.kind = "Message" /\ command.type = "Message"
    \/ i.kind = "User" /\ command.type = "User"

\* the listener is called: the two early returns, then the for loop starts
Receive ==
    /\ lpc = "received"
    /\ IF ~isCommand(interaction)
       THEN /\ lpc' = "returned"
            /\ UNCHANGED <<cursor, listenerLog>>
       ELSE IF interaction.guildId # configuredGuild
       THEN /\ lpc' = "returned"
            /\ listenerLog' = Append(listenerLog,
                   IF interaction.guildId = "null" THEN "warn: DM"
                   ELSE "warn: unauthorized guild")
            /\ UNCHANGED cursor
       ELSE /\ lpc' = "loop"
            /\ cursor' = 1
            /\ UNCHANGED listenerLog
    /\ UNCHANGED <<interaction, commands, executed>>
    /\ UNCHANGED <<textVars, audioVars, runVars, cmdVars, mainVars>>

\* one iteration of "for (const command of commands)", or its end
LoopStep ==
    /\ lpc = "loop"
    /\ IF cursor > Len(commands)
       THEN /\ lpc' = "returned"
            /\ UNCHANGED <<cursor, executed, listenerLog>>
       ELSE LET command == commands[cursor]
            IN  IF command.name # interaction.commandName
                THEN /\ cursor' = cursor + 1
                     /\ UNCHANGED <<lpc, executed, listenerLog>>
                ELSE IF typeMatches(interaction, command)
                THEN /\ executed' = Append(executed, cursor)
                     /\ lpc' = "executing"
                     /\ UNCHANGED <<cursor, listenerLog>>
                ELSE /\ listenerLog' = Append(listenerLog, "error: not found")
                     /\ cursor' = cursor + 1
                     /\ UNCHANGED <<lpc, executed>>
    /\ UNCHANGED <<interaction, commands>>
    /\ UNCHANGED <<textVars, audioVars, runVars, cmdVars, mainVars>>

\* "await command.execute(interaction)" settles: return, or the rejection
\* leaves the listener
ExecuteSettles(result) ==
    /\ lpc = "executing"
    /\ lpc' = IF result = "resolved" THEN "returned" ELSE "threw"
    /\ UNCHANGED <<interaction, commands, cursor, executed, listenerLog>>
    /\ UNCHANGED <<textVars, audioVars, runVars, cmdVars, mainVars>>

ListenerNext ==
    \/ Receive
    \/ LoopStep
    \/ \E result \in {"resolved", "rejected"} : ExecuteSettles(result)

\* proofreadTranscription(transcription, language, model) has just been
\* called; no splitAudio and no transcribe call is in progress
TextInit ==
    /\ transcription \in TextsUpTo(MaxLen)
    /\ language \in {"en", "ja"}
    /\ model \in {"gpt4", "gemini"}
    /\ estimator \in Estimators
    /\ tpc = "count_transcription"
    /\ segments = <<>>
    /\ segIndex = 0
    /\ countCalls = 0
    /\ lastMove = NoMove
    /\ moves = 0
    /\ warnings = 0
    /\ splitResult = <<>>
    /\ requests = <<>>
    /\ responses = <<>>
    /\ failure = "none"
    /\ proofreadResult = <<>>
    /\ apc = "idle"
    /\ sourcePath = [dir |-> "none", file |-> <<"none">>]
    /\ maxFileSize = 0
    /\ probe = NoProbe
    /\ segmentTime = -1
    /\ transcodeCalls = 0
    /\ manifest = <<>>
    /\ audioSegments = <<>>
    /\ audioError = "none"
    /\ rpc = "idle"
    /\ revision = "speakers"
    /\ results = <<>>
    /\ returned = NoReturn
    /\ sourceFile = NoSourceFile
    /\ fileType = "none"
    /\ hasParent = FALSE
    /\ tempDir = "none"
    /\ parentFolder = "none"
    /\ audioFile = "none"
    /\ transcriptionFile = "none"
    /\ proofreadFile = "none"
    /\ segStatus = <<>>
    /\ completed = <<>>
    /\ transcribeCalls = <<>>
    /\ transcribedText = <<>>
    /\ stageLog = <<>>
    /\ pending = "none"
    /\ runError = "none"
    /\ outcome = "none"
    /\ cpc = "none"
    /\ sourceUrl = NoUrl
    /\ discordCalls = <<>>
    /\ caught = "none"
    /\ mpc = "none"
    /\ env = [name \in requiredEnvs |-> "set"]
    /\ contacted = <<>>
    /\ exitStatus = -1
    /\ lpc = "none"
    /\ interaction = NoInteraction
    /\ commands = <<>>
    /\ cursor = 0
    /\ executed = <<>>
    /\ listenerLog = <<>>

\* splitAudio(sourcePath, maxFileSize) has just been called on its own
AudioInit ==
    /\ transcription = <<>>
    /\ language = "ja"
    /\ model = "gemini"
    /\ estimator = [tokB |-> 1, tokSP |-> 0, tokNL |-> 1]
    /\ tpc = "idle"
    /\ segments = <<>>
    /\ segIndex = 0
    /\ countCalls = 0
    /\ lastMove = NoMove
    /\ moves = 0
    /\ warnings = 0
    /\ splitResult = <<>>
    /\ requests = <<>>
    /\ responses = <<>>
    /\ failure = "none"
    /\ proofreadResult = <<>>
    /\ apc = "probing"
    /\ sourcePath = [dir |-> "dir", file |-> <<"audio">>]
    /\ maxFileSize \in 1..MaxLimit
    /\ probe = NoProbe
    /\ segmentTime = -1
    /\ transcodeCalls = 0
    /\ manifest = <<>>
    /\ audioSegments = <<>>
    /\ audioError = "none"
    /\ rpc = "idle"
    /\ revision = "speakers"
    /\ results = <<>>
    /\ returned = NoReturn
    /\ sourceFile = NoSourceFile
    /\ fileType = "none"
    /\ hasParent = FALSE
    /\ tempDir = "none"
    /\ parentFolder = "none"
    /\ audioFile = "none"
    /\ transcriptionFile = "none"
    /\ proofreadFile = "none"
    /\ segStatus = <<>>
    /\ completed = <<>>
    /\ transcribeCalls = <<>>
    /\ transcribedText = <<>>
    /\ stageLog = <<>>
    /\ pending = "none"
    /\ runError = "none"
    /\ outcome = "none"
    /\ cpc = "none"
    /\ sourceUrl = NoUrl
    /\ discordCalls = <<>>
    /\ caught = "none"
    /\ mpc = "none"
    /\ env = [name \in requiredEnvs |-> "set"]
    /\ contacted = <<>>
    /\ exitStatus = -1
    /\ lpc = "none"
    /\ interaction = NoInteraction
    /\ commands = <<>>
    /\ cursor = 0
    /\ executed = <<>>
    /\ listenerLog = <<>>

\* transcribe(sourceFileId, speakers) has just been called
RunInit ==
    /\ transcription = <<>>
    /\ language = "ja"
    /\ model = "gemini"
    /\ estimator = [tokB |-> 1, tokSP |-> 0, tokNL |-> 1]
    /\ tpc = "idle"
    /\ segments = <<>>
    /\ segIndex = 0
    /\ countCalls = 0
    /\ lastMove = NoMove
    /\ moves = 0
    /\ warnings = 0
    /\ splitResult = <<>>
    /\ requests = <<>>
    /\ responses = <<>>
    /\ failure = "none"
    /\ proofreadResult = <<>>
    /\ apc = "idle"
    /\ sourcePath = [dir |-> "none", file |-> <<"none">>]
    /\ maxFileSize = 0
    /\ probe = NoProbe
    /\ segmentTime = -1
    /\ transcodeCalls = 0
    /\ manifest = <<>>
    /\ audioSegments = <<>>
    /\ audioError = "none"
    /\ rpc = "metadata"
    /\ revision \in {"speakers", "proofread", "results"}
    /\ results = <<>>
    /\ returned = NoReturn
    /\ sourceFile = NoSourceFile
    /\ fileType = "none"
    /\ hasParent = FALSE
    /\ tempDir = "none"
    /\ parentFolder = "none"
    /\ audioFile = "none"
    /\ transcriptionFile = "none"
    /\ proofreadFile = "none"
    /\ segStatus = <<>>
    /\ completed = <<>>
    /\ transcribeCalls = <<>>
    /\ transcribedText = <<>>
    /\ stageLog = <<"fetch-metadata">>
    /\ pending = "none"
    /\ runError = "none"
    /\ outcome = "none"
    /\ cpc = "none"
    /\ sourceUrl = NoUrl
    /\ discordCalls = <<>>
    /\ caught = "none"
    /\ mpc = "none"
    /\ env = [name \in requiredEnvs |-> "set"]
    /\ contacted = <<>>
    /\ exitStatus = -1
    /\ lpc = "none"
    /\ interaction = NoInteraction
    /\ commands = <<>>
    /\ cursor = 0
    /\ executed = <<>>
    /\ listenerLog = <<>>

\* the process has just been started with some environment
MainInit ==
    /\ transcription = <<>>
    /\ language = "ja"
    /\ model = "gemini"
    /\ estimator = [tokB |-> 1, tokSP |-> 0, tokNL |-> 1]
    /\ tpc = "idle"
    /\ segments = <<>>
    /\ segIndex = 0
    /\ countCalls = 0
    /\ lastMove = NoMove
    /\ moves = 0
    /\ warnings = 0
    /\ splitResult = <<>>
    /\ requests = <<>>
    /\ responses = <<>>
    /\ failure = "none"
    /\ proofreadResult = <<>>
    /\ apc = "idle"
    /\ sourcePath = [dir |-> "none", file |-> <<"none">>]
    /\ maxFileSize = 0
    /\ probe = NoProbe
    /\ segmentTime = -1
    /\ transcodeCalls = 0
    /\ manifest = <<>>
    /\ audioSegments = <<>>
    /\ audioError = "none"
    /\ rpc = "idle"
    /\ revision = "speakers"
    /\ results = <<>>
    /\ returned = NoReturn
    /\ sourceFile = NoSourceFile
    /\ fileType = "none"
    /\ hasParent = FALSE
    /\ tempDir = "none"
    /\ parentFolder = "none"
    /\ audioFile = "none"
    /\ transcriptionFile = "none"
    /\ proofreadFile = "none"
    /\ segStatus = <<>>
    /\ completed = <<>>
    /\ transcribeCalls = <<>>
    /\ transcribedText = <<>>
    /\ stageLog = <<>>
    /\ pending = "none"
    /\ runError = "none"
    /\ outcome = "none"
    /\ cpc = "none"
    /\ sourceUrl = NoUrl
    /\ discordCalls = <<>>
    /\ caught = "none"
    /\ mpc = "import"
    /\ env \in [requiredEnvs -> {"absent", "empty", "set"}]
    /\ contacted = <<>>
    /\ exitStatus = -1
    /\ lpc = "none"
    /\ interaction = NoInteraction
    /\ commands = <<>>
    /\ cursor = 0
    /\ executed = <<>>
    /\ listenerLog = <<>>

\* a transcribe command has just been received: execute(interaction) is
\* called
CommandInit ==
    /\ transcription = <<>>
    /\ language = "ja"
    /\ model = "gemini"
    /\ estimator = [tokB |-> 1, tokSP |-> 0, tokNL |-> 1]
    /\ tpc = "idle"
    /\ segments = <<>>
    /\ segIndex = 0
    /\ countCalls = 0
    /\ lastMove = NoMove
    /\ moves = 0
    /\ warnings = 0
    /\ splitResult = <<>>
    /\ requests = <<>>
    /\ responses = <<>>
    /\ failure = "none"
    /\ proofreadResult = <<>>
    /\ apc = "idle"
    /\ sourcePath = [dir |-> "none", file |-> <<"none">>]
    /\ maxFileSize = 0
    /\ probe = NoProbe
    /\ segmentTime = -1
    /\ transcodeCalls = 0
    /\ manifest = <<>>
    /\ audioSegments = <<>>
    /\ audioError = "none"
    /\ rpc = "idle"
    /\ revision \in {"speakers", "proofread", "results"}
    /\ results = <<>>
    /\ returned = NoReturn
    /\ sourceFile = NoSourceFile
    /\ fileType = "none"
    /\ hasParent = FALSE
    /\ tempDir = "none"
    /\ parentFolder = "none"
    /\ audioFile = "none"
    /\ transcriptionFile = "none"
    /\ proofreadFile = "none"
    /\ segStatus = <<>>
    /\ completed = <<>>
    /\ transcribeCalls = <<>>
    /\ transcribedText = <<>>
    /\ stageLog = <<>>
    /\ pending = "none"
    /\ runError = "none"
    /\ outcome = "none"
    /\ cpc = "invoked"
    /\ sourceUrl \in Urls
    /\ discordCalls = <<>>
    /\ caught = "none"
    /\ mpc = "none"
    /\ env = [name \in requiredEnvs |-> "set"]
    /\ contacted = <<>>
    /\ exitStatus = -1
    /\ lpc = "none"
    /\ interaction = NoInteraction
    /\ commands = <<>>
    /\ cursor = 0
    /\ executed = <<>>
    /\ listenerLog = <<>>

\* an interaction has just been received: commandsListener(interaction) is
\* called
ListenerInit ==
    /\ transcription = <<>>
    /\ language = "ja"
    /\ model = "gemini"
    /\ estimator = [tokB |-> 1, tokSP |-> 0, tokNL |-> 1]
    /\ tpc = "idle"
    /\ segments = <<>>
    /\ segIndex = 0
    /\ countCalls = 0
    /\ lastMove = NoMove
    /\ moves = 0
    /\ warnings = 0
    /\ splitResult = <<>>
    /\ requests = <<>>
    /\ responses = <<>>
    /\ failure = "none"
    /\ proofreadResult = <<>>
    /\ apc = "idle"
    /\ sourcePath = [dir |-> "none", file |-> <<"none">>]
    /\ maxFileSize = 0
    /\ probe = NoProbe
    /\ segmentTime = -1
    /\ transcodeCalls = 0
    /\ manifest = <<>>
    /\ audioSegments = <<>>
    /\ audioError = "none"
    /\ rpc = "idle"
    /\ revision = "speakers"
    /\ results = <<>>
    /\ returned = NoReturn
    /\ sourceFile = NoSourceFile
    /\ fileType = "none"
    /\ hasParent = FALSE
    /\ tempDir = "none"
    /\ parentFolder = "none"
    /\ audioFile = "none"
    /\ transcriptionFile = "none"
    /\ proofreadFile = "none"
    /\ segStatus = <<>>
    /\ completed = <<>>
    /\ transcribeCalls = <<>>
    /\ transcribedText = <<>>
    /\ stageLog = <<>>
    /\ pending = "none"
    /\ runError = "none"
    /\ outcome = "none"
    /\ cpc = "none"
    /\ sourceUrl = NoUrl
    /\ discordCalls = <<>>
    /\ caught = "none"
    /\ mpc = "none"
    /\ env = [name \in requiredEnvs |-> "set"]
    /\ contacted = <<>>
    /\ exitStatus = -1
    /\ lpc = "received"
    /\ interaction \in Interactions
    /\ commands \in CommandTables
    /\ cursor = 0
    /\ executed = <<>>
    /\ listenerLog = <<>>

\* ---------------------------------------------------------- specifications
SpecText == TextInit /\ [][TextNext]_vars

SpecAudio == AudioInit /\ [][AudioNext]_vars

SpecRun == RunInit /\ [][RunNext]_vars

SpecCommand == CommandInit /\ [][CommandNext]_vars

SpecMain == MainInit /\ [][MainNext]_vars

SpecListener == ListenerInit /\ [][ListenerNext]_vars

\* ------------------------------------------------------------------------
\* Properties of splitTranscription (checked under SpecText)

\* splitTranscription has returned its array
SplitReturned == tpc \in {"split_returned", "proofreading", "proofread_returned"}
                 \/ (tpc = "failed" /\ failure # "countTokens")

\* the budget maxOutputTokens * maxInputTokensRatio, as tokens * 100
withinBudget(tokens, m) == 100 * tokens <= models[m].maxOutputTokens * maxInputTokensRatio

\* the texts of the lines of all chunks, read in chunk order
RECURSIVE linesOfChunks(_)
linesOfChunks(segs) ==
    IF Len(segs) = 0 THEN <<>>
    ELSE [k \in 1..Len(segs[1]) |-> segs[1][k].text] \o linesOfChunks(Tail(segs))

\* the text has a blank line, a run of line breaks, or a leading or trailing one
HasBlankLines(text) ==
    Len(splitOnLineBreaks(text, <<>>, FALSE)) # Len(nonBlankLines(text))
    \/ \E k \in 1..(Len(text) - 1) : text[k] = NL /\ text[k + 1] = NL

\* C1 (as stated): joining the returned chunks with the line separator
\* reproduces the input text exactly.
C1_RoundTripExact ==
    SplitReturned => join(splitResult, <<NL>>) = transcription

\* C1 (amended): the returned chunks, joined with the line separator, have
\* exactly the non-blank lines of the input, unchanged and in the same order;
\* blank lines and the extra breaks of a run of line breaks are not kept.
C1_RoundTripNonBlankLines ==
    SplitReturned =>
        nonBlankLines(join(splitResult, <<NL>>)) = nonBlankLines(transcription)

\* C1 witness: a text with blank lines was split into several chunks
C1_Witness ==
    /\ tpc = "split_returned"
    /\ HasBlankLines(transcription)
    /\ Len(nonBlankLines(transcription)) >= 2
    /\ Len(splitResult) >= 2
    /\ moves >= 1

\* C2: a text whose estimated token count is within the budget comes back as
\* exactly one chunk, equal to the text, a single-line text included.  Stated
\* for the texts whose lines splitTranscription keeps as they are (no blank
\* line, no run of line breaks): the others already differ by C1.
C2_UnderBudgetSingleChunk ==
    (/\ SplitReturned
     /\ withinBudget(tokensOf(transcription, estimator), model)
     /\ ~HasBlankLines(transcription))
        => splitResult = <<transcription>>

\* C3: on return, every chunk of more than one line has an estimated token
\* count of at most maxOutputTokens * (maxInputTokensRatio + 0.05).
C3_MultiLineChunksWithinBound ==
    SplitReturned =>
        \A k \in 1..Len(segments) :
            Len(segments[k]) > 1 =>
                100 * tokensOf(splitResult[k], estimator)
                    <= models[model].maxOutputTokens * 45

\* C3 witness: the refinement moved lines, a chunk of several lines was
\* returned, and a single-line chunk above the bound was returned as well
C3_Witness ==
    /\ tpc = "split_returned"
    /\ moves >= 1
    /\ \E k \in 1..Len(segments) : Len(segments[k]) > 1
    /\ \E k \in 1..Len(segments) :
           /\ Len(segments[k]) = 1
           /\ 100 * tokensOf(splitResult[k], estimator) > models[model].maxOutputTokens * 45

\* C4: after the greedy pass and after every refinement step, the lines of
\* all chunks read in chunk order are the non-blank lines of the input.
C4_LinesPreserved ==
    segIndex >= 1 => linesOfChunks(segments) = nonBlankLines(transcription)

\* C4 witness: a refinement step has just moved a line into an existing chunk
C4_Witness ==
    /\ lastMove.from >= 1
    /\ lastMove.from < Len(lastMove.before)
    /\ Len(nonBlankLines(transcription)) >= 3

\* C5: when a countTokens call fails, proofreadTranscription has failed, no
\* chunk list was returned, no request was issued, and nothing runs again
\* (no further countTokens call).
C5_EstimatorFailureAborts ==
    failure = "countTokens" =>
        /\ tpc = "failed"
        /\ splitResult = <<>>
        /\ requests = <<>>
        /\ ~ENABLED TextNext

\* C5 witness: the re-estimate of chunk 2 of 3 failed
C5_Witness ==
    /\ failure = "countTokens"
    /\ segIndex = 2
    /\ Len(segments) = 3
    /\ \A k \in 1..3 : Len(segments[k]) >= 1

\* ------------------------------------------------------------------------
\* Properties of splitAudio (checked under SpecAudio)

\* ffprobe has answered and splitAudio has acted on the answer
Probed == apc \notin {"idle", "probing"} /\ audioError # "ffprobe"

\* splitAudio resolved with the source itself as its only segment
OneWholeSegment ==
    /\ apc = "returned"
    /\ audioSegments = <<[path |-> sourcePath, startTime |-> 0,
                          endTime |-> probe.duration]>>
    /\ transcodeCalls = 0

\* C6 (as stated): whenever the probed size is at most the limit, splitAudio
\* returns the single segment [source, 0, duration] without transcoding.
C6_SmallSourceOneSegment ==
    (Probed /\ probe.size >= 1 /\ probe.size <= maxFileSize) => OneWholeSegment

\* C6 (amended): whenever the probe reports a duration and a size, both
\* non-zero, and the size is at most the limit, splitAudio returns the single
\* segment [source, 0, duration] without transcoding.
C6_ProbedSmallSourceOneSegment ==
    (Probed /\ probe.duration >= 1 /\ probe.size >= 1 /\ probe.size <= maxFileSize)
        => OneWholeSegment

\* C6 witness: a source exactly as large as the limit came back whole
C6_Witness ==
    /\ OneWholeSegment
    /\ probe.size = maxFileSize
    /\ probe.duration >= 2

ManifestIncomplete == \E k \in 1..Len(manifest) : rowIncomplete(manifest[k])

\* C9: when a row of the segment list that was read lacks a field, splitAudio
\* fails with the parse error and returns no segment.
C9_IncompleteRowFailsSplit ==
    (ManifestIncomplete /\ apc \in {"returned", "failed"} /\ audioError # "read") =>
        /\ apc = "failed"
        /\ audioError = "Failed to parse CSV file."
        /\ audioSegments = <<>>

\* C9 witness: the parse failed on a list whose first two rows are complete
C9_Witness ==
    /\ apc = "failed"
    /\ audioError = "Failed to parse CSV file."
    /\ Len(manifest) >= 3
    /\ ~rowIncomplete(manifest[1])
    /\ ~rowIncomplete(manifest[2])

\* ------------------------------------------------------------------------
\* Properties of transcribe (checked under SpecRun)

\* C8: in a run on a 40-minute source (limit maxAudioFileDuration = 1200),
\* splitAudio yields exactly two contiguous segments ending at 2400 s; each
\* is sent to transcribeAudioFile once and the results are joined in
\* segment order.
C8_FortyMinutesTwoSegments ==
    (revision = "speakers" /\ rpc \notin {"idle", "split"} /\ apc = "returned"
        /\ probe.duration = 2400) =>
        /\ maxFileSize = 1200
        /\ Len(audioSegments) = 2
        /\ audioSegments[1].startTime = 0
        /\ audioSegments[2].startTime = audioSegments[1].endTime
        /\ audioSegments[2].endTime = 2400
        /\ transcribeCalls = <<1, 1>>
        /\ (rpc \notin {"transcribing"} /\ runError # "transcribe-each-segment")
              => transcribedText = join(<<spokenText(1), spokenText(2)>>, <<NL>>)

ResponseLacksField ==
    /\ sourceFile # NoSourceFile
    /\ \E f \in requestedFields : falsy(sourceFile[f])

\* C11: when the metadata response for the source file lacks mimeType or any
\* other requested field, the run is rejected at once with "Failed to get
\* file metadata.": no temporary directory is made, no download is called and
\* no later stage is started.
C11_MissingFieldFailsAtOnce ==
    ResponseLacksField =>
        /\ rpc = "ended"
        /\ outcome = "rejected"
        /\ runError = "Failed to get file metadata."
        /\ tempDir = "none"
        /\ stageLog = <<"fetch-metadata">>
        /\ apc = "idle"
        /\ parentFolder = "none" /\ audioFile = "none"
        /\ transcriptionFile = "none"
        /\ proofreadFile = "none"

\* a response without mimeType, all other fields present, has been handled
C11_Witness ==
    /\ sourceFile = [name |-> "interview", webViewLink |-> "link",
                     mimeType |-> "absent", parents |-> "one"]
    /\ outcome = "rejected"

\* the concatenation has been made
Concatenated == \E i \in 1..Len(stageLog) : stageLog[i] = "concatenate"

\* C12: whatever the order in which the per-segment transcription calls
\* resolve, the concatenation is made only when every call has resolved,
\* and the transcript is the segment texts in the order of the audio
\* segments, joined by line breaks.
C12_TranscriptInSegmentOrder ==
    Concatenated =>
        /\ Len(segStatus) = Len(audioSegments)
        /\ \A k \in 1..Len(segStatus) : segStatus[k].state = "done"
        /\ Len(completed) = Len(segStatus)
        /\ transcribedText =
              join([k \in 1..Len(audioSegments) |-> spokenText(k)], <<NL>>)

\* a later segment's call resolved before an earlier one's, and the
\* concatenation has been made
C12_Witness ==
    /\ Concatenated
    /\ Len(completed) >= 3
    /\ completed[1] > completed[2]

\* ------------------------------------------------------------------------
\* Properties of proofreadTranscription (checked under SpecText)

\* the requests have been issued
RequestsIssued == tpc \in {"proofreading", "proofread_returned"} \/ Len(requests) > 0

\* C13: proofreadTranscription issues one request per chunk of
\* splitTranscription's result, in chunk order; nothing is returned while a
\* request is pending; whatever the order in which the requests complete,
\* the returned response is the chunks' responses joined by blank lines in
\* chunk order; and when some response is empty the call fails with "The
\* response is empty." (or with a request's rejection) and returns nothing.
C13_ProofreadJoinsInChunkOrder ==
    /\ RequestsIssued =>
          /\ requests = splitResult
          /\ Len(responses) = Len(requests)
    /\ tpc = "proofreading" => proofreadResult = <<>>
    /\ tpc = "proofread_returned" =>
          /\ \A k \in 1..Len(responses) : responses[k] = "ok"
          /\ proofreadResult =
                join([k \in 1..Len(requests) |-> replyText(k)], <<NL, NL>>)
    /\ (\E k \in 1..Len(responses) : responses[k] = "empty") =>
          /\ tpc # "proofread_returned"
          /\ proofreadResult = <<>>
          /\ (\A k \in 1..Len(responses) : responses[k] # "pending")
                => tpc = "failed" /\ failure = "empty response"

\* three requests have all completed, the second one with an empty content
C13_Witness ==
    /\ Len(requests) = 3
    /\ responses = <<"ok", "empty", "ok">>
    /\ tpc = "failed"

\* an upload started by the run has been rejected
UploadFailed ==
    \/ audioFile = "rejected"
    \/ transcriptionFile = "rejected"
    \/ proofreadFile = "rejected"

\* an awaited call of the run has been rejected
AwaitedStageFailed == runError # "none"

\* this step starts no stage but the removal of the temporary directory
StartsNoStage == stageLog' = stageLog \/ stageLog' = Append(stageLog, "cleanup")

\* no external call has been made twice
NoSecondInvocation ==
    /\ \A k \in 1..Len(transcribeCalls) : transcribeCalls[k] = 1
    /\ transcodeCalls <= 1
    /\ \A i, j \in 1..Len(stageLog) : i # j => stageLog[i] # stageLog[j]

\* C14 (as stated): once any stage has failed, an upload included, no later
\* stage is started, the run rejects and no call is made a second time.
C14_AnyFailureStopsLaterStages ==
    /\ [](NoSecondInvocation)
    /\ []((rpc = "ended" /\ (AwaitedStageFailed \/ UploadFailed))
             => outcome = "rejected")
    /\ [][(AwaitedStageFailed \/ UploadFailed) => StartsNoStage]_vars

\* C14 (amended): once an awaited stage has failed the run starts no other
\* stage, keeps that failure and rejects with it; no call is made a second
\* time; a run in which an upload has failed never resolves, though it may
\* start later stages before it awaits the upload.
C14_AwaitedFailureStopsLaterStages ==
    /\ [](NoSecondInvocation)
    /\ []((rpc = "ended" /\ (AwaitedStageFailed \/ UploadFailed))
             => outcome = "rejected")
    /\ [][AwaitedStageFailed =>
             /\ stageLog' = stageLog
             /\ runError' = runError
             /\ rpc' \in {"cleanup", "ended"}]_vars

\* the audio upload failed, the run went on and ended when proofreading
\* failed
C14_Witness ==
    /\ rpc = "ended"
    /\ audioFile = "rejected"
    /\ runError = "proofread"
    /\ outcome = "rejected"

\* ------------------------------------------------------------------------
\* Order of the stages of transcribe (checked under SpecRun, for the
\* revision of transcribe.ts)

\* the stage s has been started
Started(s) == \E i \in 1..Len(stageLog) : stageLog[i] = s

\* the order the stages are started in: the audio upload right after
\* extract-audio
startRank(s) ==
    CASE s = "fetch-metadata" -> 1
      [] s = "mkdtemp" -> 2
      [] s = "download" -> 3
      [] s = "extract-audio" -> 4
      [] s = "upload-audio" -> 5
      [] s = "silence" -> 6
      [] s = "split" -> 7
      [] s = "transcribe-each-segment" -> 8
      [] s = "concatenate" -> 9
      [] s = "upload-transcription" -> 10
      [] OTHER -> 11

\* the order with every upload after the concatenation
uploadLastRank(s) == IF s = "upload-audio" THEN 10 ELSE startRank(s)

\* what holds of the extract-audio stage for either file type
ExtractOnlyForVideo ==
    /\ fileType = "audio" =>
          /\ ~Started("extract-audio") /\ ~Started("upload-audio")
          /\ audioFile = "none"
    /\ (fileType = "video" /\ Started("silence")) => Started("extract-audio")
    /\ outcome = "resolved" =>
          /\ \A st \in {"fetch-metadata", "download", "silence", "split",
                         "transcribe-each-segment", "concatenate",
                         "upload-transcription"} : Started(st)
          /\ fileType = "video" => audioFile = "resolved"

\* C15 (as stated): the stages are started in the order fetch-metadata,
\* download, extract-audio, silence removal, split, per-segment
\* transcription, concatenation, upload; extract-audio and the audio upload
\* happen for a video only.
C15_UploadsAfterConcatenation ==
    revision = "speakers" =>
        /\ \A i, j \in 1..Len(stageLog) :
              i < j => uploadLastRank(stageLog[i]) <= uploadLastRank(stageLog[j])
        /\ ExtractOnlyForVideo

\* C15 (amended): the stages are started in the order fetch-metadata,
\* download, extract-audio, upload of the audio, silence removal, split,
\* per-segment transcription, concatenation, upload of the transcript; for an
\* audio source extract-audio and the audio upload are skipped and the audio
\* entry of the result is undefined; a run that resolves has started every
\* other stage.
C15_StagesInStartOrder ==
    revision = "speakers" =>
        /\ \A i, j \in 1..Len(stageLog) :
              i < j => startRank(stageLog[i]) < startRank(stageLog[j])
        /\ ExtractOnlyForVideo

\* a run on a video has resolved
C15_Witness ==
    /\ revision = "speakers"
    /\ fileType = "video"
    /\ outcome = "resolved"
    /\ Len(audioSegments) >= 2

\* ------------------------------------------------------------------------
\* Properties of the transcribe command (checked under SpecCommand)

\* transcribe has not been called: nothing of a run has happened
NoRun ==
    /\ rpc = "idle"
    /\ stageLog = <<>>
    /\ sourceFile = NoSourceFile
    /\ tempDir = "none"
    /\ apc = "idle"

\* C16: when source_url yields no file id, execute makes exactly one call on
\* the interaction, reply with "Invalid file URL.", and ends when it
\* settles: deferReply is never called, transcribe is never called, and no
\* metadata lookup, download or temporary directory happens.
C16_InvalidUrlRepliesAndEnds ==
    (cpc # "invoked" /\ extractFileId(sourceUrl) = "undefined") =>
        /\ cpc \in {"replying", "returned", "threw"}
        /\ Len(discordCalls) = 1
        /\ discordCalls[1].method = "reply"
        /\ discordCalls[1].text = "Invalid file URL."
        /\ (cpc = "replying") = (discordCalls[1].result = "pending")
        /\ NoRun

\* a Drive URL whose id is one character too short has been answered
C16_Witness ==
    /\ sourceUrl = [scheme |-> "https", host |-> "drive.google.com",
                    folder |-> "file", marker |-> "d",
                    idLength |-> minFileIdLength - 1, tail |-> "/view"]
    /\ cpc = "returned"
    /\ discordCalls[1].result = "resolved"

\* the metadata response has every requested field and a mimeType that is
\* neither video/* nor audio/*
NotMedia ==
    /\ sourceFile # NoSourceFile
    /\ \A f \in requestedFields : ~falsy(sourceFile[f])
    /\ sourceFile.mimeType \notin {"video", "audio"}

edits == SelectSeq(discordCalls, LAMBDA c : c.method = "editReply")

\* execute has ended for a URL that passed the validation
CommandEnded == cpc \in {"returned", "threw"} /\ rpc # "idle"

\* C18 (as stated): an invocation that passes the URL validation ends with
\* exactly one editReply call, the success summary if and only if transcribe
\* resolved, otherwise an error reply with the message of the run's error.
C18_ExactlyOneEdit ==
    CommandEnded =>
        /\ Len(edits) = 1
        /\ (edits[1].kind = "success") = (outcome = "resolved")
        /\ edits[1].kind = "error" => edits[1].text = runError

\* C18 (amended): no edit is made before transcribe settles; the first edit
\* is the success summary if and only if transcribe resolved, otherwise an
\* error reply with the message of the run's error, and then it is the only
\* edit; a second edit is made exactly when the success edit was rejected,
\* and it is an error reply with the message of that rejection; a failed run
\* has no success edit.
C18_OneEditUnlessSuccessEditFails ==
    /\ cpc \in {"invoked", "replying", "running"} => Len(edits) = 0
    /\ CommandEnded =>
          /\ Len(edits) \in {1, 2}
          /\ (edits[1].kind = "success") = (outcome = "resolved")
          /\ edits[1].kind = "error" =>
                edits[1].text = runError /\ Len(edits) = 1
          /\ (Len(edits) = 2) =
                (edits[1].kind = "success" /\ edits[1].result = "rejected")
          /\ Len(edits) = 2 =>
                /\ edits[2].kind = "error"
                /\ edits[2].text = "editReply rejected"
          /\ outcome = "rejected" =>
                \A k \in 1..Len(edits) : edits[k].kind = "error"

\* transcribe resolved, the success edit was rejected and the error edit
\* that followed was accepted
C18_Witness ==
    /\ cpc = "returned"
    /\ outcome = "resolved"
    /\ Len(edits) = 2
    /\ edits[1].result = "rejected"
    /\ edits[2].result = "resolved"

\* ------------------------------------------------------------------------
\* The single long line (checked under SpecText)

\* chunk i is one line whose estimate is over the bound
LongLineChunk(i) ==
    /\ i \in 1..Len(segments)
    /\ Len(segments[i]) = 1
    /\ overBudget(tokensOf(chunkText(segments[i]), estimator), model)

\* the estimate of the chunk under refinement has come back in this step
EstimateReturned ==
    /\ tpc = "count_segment"
    /\ countCalls' = countCalls + 1
    /\ failure' = "none"

\* C19: when the estimate of a single-line chunk comes back over the bound,
\* splitTranscription logs one warning, leaves every chunk as it is and goes
\* on with the next chunk, or returns when there is none; the array it
\* returns holds every such chunk, and one warning was logged for each.
C19_LongLineKeptWithWarning ==
    /\ [][(EstimateReturned /\ LongLineChunk(segIndex)) =>
             /\ warnings' = warnings + 1
             /\ segments' = segments
             /\ segIndex' = segIndex + 1
             /\ tpc' = IF segIndex < Len(segments)
                       THEN "count_segment" ELSE "split_returned"]_vars
    /\ [](SplitReturned =>
             /\ tpc = "split_returned" => failure = "none"
             /\ splitResult = chunkTexts(segments)
             /\ warnings = Cardinality({i \in 1..Len(segments) : LongLineChunk(i)}))

\* splitTranscription has returned three chunks or more, the second one a
\* single line over the bound
C19_Witness ==
    /\ SplitReturned
    /\ Len(splitResult) >= 3
    /\ LongLineChunk(2)
    /\ warnings >= 1

\* ------------------------------------------------------------------------
\* Startup (checked under SpecMain)

\* some required variable is absent or empty
SomeEnvMissing == \E name \in requiredEnvs : env[name] # "set"

\* C20: when a required environment variable is absent or empty, the process
\* makes no startup check (ffmpeg, OpenAI, Gemini, Google Drive) and no
\* Discord login: it is still before them, or it has exited with status 1.
C20_MissingEnvExitsBeforeChecks ==
    SomeEnvMissing =>
        /\ contacted = <<>>
        /\ mpc \in {"import", "env_check", "exited"}
        /\ (mpc = "exited") = (exitStatus = 1)
        /\ mpc # "exited" => ENABLED (ImportThrows \/ ImportsDone \/ CheckEnvs)

\* GEMINI_API_KEY alone is empty and the process has exited with status 1
C20_Witness ==
    /\ env = [name \in requiredEnvs |->
                IF name = "GEMINI_API_KEY" THEN "empty" ELSE "set"]
    /\ mpc = "exited"
    /\ exitStatus = 1

\* ------------------------------------------------------------------------
\* Properties of commandsListener (checked under SpecListener)

\* the interaction is one the listener ignores: not a command, or from
\* another guild or a direct message
Ignored == ~isCommand(interaction) \/ interaction.guildId # configuredGuild

\* command k of the table has the interaction's name and command type
Matches(k) ==
    /\ commands[k].name = interaction.commandName
    /\ commands[k].type = interaction.kind

\* C21: commandsListener executes no command for an interaction that is not
\* a command or whose guild id is not the configured one; for any other
\* interaction it executes at most one command, and that command is the
\* first of the table whose name and command type both match the interaction.
C21_ListenerExecutesOnlyTheMatch ==
    /\ Ignored => executed = <<>>
    /\ Len(executed) <= 1
    /\ \A e \in 1..Len(executed) :
          /\ Matches(executed[e])
          /\ \A k \in 1..(executed[e] - 1) : ~Matches(k)
    /\ (lpc = "returned" /\ ~Ignored /\ executed = <<>>) =>
          \A k \in 1..Len(commands) : ~Matches(k)

\* the second command of a table was executed, after a first one of the same
\* name and another type was passed over
C21_Witness ==
    /\ lpc = "returned"
    /\ executed = <<2>>
    /\ commands[1].name = interaction.commandName
    /\ listenerLog = <<"error: not found">>

\* ------------------------------------------------------------------------
\* Properties of the greedy pass (checked under SpecText)

\* the greedy pass has just run: the refinement loop has not counted a chunk
GreedyDone == tpc = "count_segment" /\ countCalls = 1

\* C22: in the greedy pass a new chunk is started only when adding the line
\* to the current chunk would exceed the ideal per-chunk unit count
\* totalUnits / expectedSegments; a line whose addition reaches the ideal
\* count exactly stays in the current chunk.  (Every chunk after the first
\* was started by its first line, when the chunk before it was complete.)
C22_NewChunkOnlyWhenExceeding ==
    GreedyDone =>
        LET tokens == tokensOf(transcription, estimator)
            expected == expectedSegments(tokens, model)
            totalUnits == segmentCount(transcription, language)
        IN  \A k \in 2..Len(segments) :
               (chunkLength(segments[k - 1]) + segments[k][1].length) * expected
                   > totalUnits

\* ------------------------------------------------------------------------
\* Properties of the refinement pass (checked under SpecText)

\* a step of the refinement pass changes the chunks
RefinementMoves == tpc = "count_segment" /\ segments' # segments

\* C23: a step of the refinement pass on chunk i takes exactly the last line
\* of chunk i and puts it in front of chunk i + 1, which is a new trailing
\* chunk when chunk i was the last one; no chunk below i and no chunk above
\* i + 1 changes, and no step of the pass changes a chunk the pass has left
\* (a chunk of index below i).
C23_StepMovesLastLineForward ==
    [][ /\ RefinementMoves =>
             LET i == segIndex
                 chunk == segments[i]
                 lastLine == chunk[Len(chunk)]
             IN  /\ segIndex' = i
                 /\ Len(chunk) > 1
                 /\ segments'[i] = SubSeq(chunk, 1, Len(chunk) - 1)
                 /\ IF i < Len(segments)
                    THEN /\ Len(segments') = Len(segments)
                         /\ segments'[i + 1] = <<lastLine>> \o segments[i + 1]
                    ELSE /\ Len(segments') = Len(segments) + 1
                         /\ segments'[i + 1] = <<lastLine>>
                 /\ \A k \in 1..Len(segments) :
                       k \notin {i, i + 1} => segments'[k] = segments[k]
        /\ tpc = "count_segment" =>
             /\ Len(segments') >= Len(segments)
             /\ \A k \in 1..(segIndex - 1) : segments'[k] = segments[k]
      ]_vars

\* a step on the last chunk, which is not the first, has created a new
\* trailing chunk
C23_Witness ==
    /\ tpc = "count_segment"
    /\ lastMove.from >= 2
    /\ lastMove.from = Len(lastMove.before)
    /\ Len(segments) = Len(lastMove.before) + 1

\* ------------------------------------------------------------------------
\* Properties of the revision of transcribe that collects its pending results
\* in one list (checked under SpecRun)

\* the three uploads of the run have resolved, each with its metadata
AllUploadsResolved ==
    /\ audioFile = "resolved"
    /\ transcriptionFile = "resolved"
    /\ proofreadFile = "resolved"

\* C24: in the "results" revision the run throws "Failed to upload files."
\* only when one of the three uploads produced no metadata; a run whose
\* uploads all resolved returns an object whose parent is the parent folder
\* (undefined for a file in no folder) and whose audio, transcription and
\* proofreadTranscription are each the metadata of its own upload.
C24_UploadErrorOnlyWithoutMetadata ==
    revision = "results" =>
        /\ runError = "Failed to upload files." => ~AllUploadsResolved
        /\ pending = "resolved" =>
              returned = [parent |-> IF hasParent THEN "parentFolder"
                                     ELSE "undefined",
                          audio |-> "audioFile",
                          transcription |-> "transcriptionFile",
                          proofreadTranscription |-> "proofreadFile"]

\* number of non-blank lines of the input
lineCount == Len(nonBlankLines(transcription))

\* the most lines the refinement can move: the first chunk gives away all
\* its lines but one, the next chunk all but one of those, and so on
maxMoves(n) == (n * (n - 1)) \div 2

\* C25: the refinement pass ends.  Every step of the pass is one call of
\* the estimator, and with n non-blank lines the pass moves at most
\* n (n - 1) / 2 lines and there are at most n + 1 chunks, so the estimator
\* is called at most 1 + (n + 1) + n (n - 1) / 2 times, whatever it returns.
\* (Stated for the states of the pass, of its return and of its failure; the
\* counters do not change afterwards.)
C25_RefinementBounded ==
    tpc \in {"count_segment", "split_returned", "failed"} =>
        LET n == lineCount
        IN  /\ moves <= maxMoves(n)
            /\ Len(segments) <= n + 1
            /\ countCalls <= 1 + (n + 1) + maxMoves(n)
            /\ tpc = "count_segment" => segIndex <= Len(segments)

\* splitTranscription has returned three chunks or more after moving a line
\* and after leaving a single line that is over the budget
C25_Witness ==
    /\ tpc = "split_returned"
    /\ moves >= 1
    /\ warnings >= 1
    /\ Len(segments) >= 3

\* C26: for an input with at least one non-blank line, every chunk that
\* splitTranscription returns has at least one line, so its text is not
\* empty, and no proofreading request is made for an empty text.
C26_NoEmptyChunk ==
    lineCount >= 1 =>
        /\ SplitReturned =>
              \A k \in 1..Len(splitResult) :
                 Len(segments[k]) >= 1 /\ splitResult[k] # <<>>
        /\ \A k \in 1..Len(requests) : requests[k] # <<>>

\* ------------------------------------------------------------------------
\* Properties of the segment duration (checked under SpecAudio)

\* C27: whenever splitAudio has started the segmenting transcode, the
\* -segment_time it passed is a whole number of seconds that is at least 1
\* and less than the duration of the source.
C27_SegmentTimePositiveAndShorter ==
    transcodeCalls >= 1 =>
        /\ segmentTime >= 1
        /\ segmentTime < probe.duration

\* ------------------------------------------------------------------------
\* Properties of the uploads of a run (checked under SpecRun)

\* an upload that reads a file of the temporary directory is in flight
UploadInFlight ==
    \/ audioFile = "pending"
    \/ transcriptionFile = "pending"
    \/ proofreadFile = "pending"

\* C28: the temporary directory is removed only after every upload the run
\* started from a file in it has settled, on the success path and when a
\* stage fails while an upload started earlier is still in flight.
C28_RemovedOnlyAfterUploadsSettled ==
    tempDir = "removed" => ~UploadInFlight

\* an upload has been started
UploadStarted ==
    \/ audioFile # "none"
    \/ transcriptionFile # "none"
    \/ proofreadFile # "none"

\* C29 as stated: a run that ends in failure has started no upload.
C29_FailedRunStartedNoUpload ==
    outcome = "rejected" => ~UploadStarted

\* the failures that come before the first upload can start
earlyFailures ==
    {"fetch-metadata", "Failed to get file metadata.",
     "Specified file is not a video nor an audio.",
     "Specified file is not a video.", "mkdtemp", "download", "extract-audio"}

\* the failures that are noticed at the awaits of the lookups and uploads
awaitFailures ==
    {"parent-folder", "upload-audio", "upload-transcription",
     "upload-proofread", "Failed to upload files."}

\* C29 (amended): a run that failed at the metadata lookup, at mkdtemp, at
\* the download or at the audio extraction has started no upload.  The audio
\* upload is started only for a video whose audio was extracted, the
\* transcript upload only after every segment was transcribed and the
\* transcript was written, and the proofread upload only after every stage
\* succeeded: a run that has started it fails only at an await of a lookup
\* or an upload.
C29_UploadsFollowTheirStage ==
    /\ runError \in earlyFailures => ~UploadStarted
    /\ audioFile # "none" =>
          fileType = "video" /\ Started("extract-audio")
    /\ transcriptionFile # "none" =>
          /\ Started("concatenate")
          /\ \A k \in 1..Len(segStatus) : segStatus[k].state = "done"
    /\ proofreadFile # "none" =>
          /\ transcriptionFile # "none"
          /\ runError \in {"none"} \cup awaitFailures

\* a run on a video has failed at the silence removal after its audio was
\* uploaded
C29_Witness ==
    /\ outcome = "rejected"
    /\ runError = "silence"
    /\ audioFile = "resolved"

\* ------------------------------------------------------------------------
\* Properties of the deferral (checked under SpecCommand)

\* C30: in execute the final editReply, success summary or error reply, is
\* issued only after the deferReply call has completed, whatever the timing
\* of the run: no editReply has been issued while the deferral is pending.
C30_EditOnlyAfterDeferral ==
    \A k \in 2..Len(discordCalls) :
       (discordCalls[1].method = "deferReply" /\ discordCalls[k].method = "editReply")
          => discordCalls[1].result # "pending"

====
